---- MODULE Spec2Model ----
(***************************************************************************)
(* A model of the typjson codec (src/typ/encoding.py, src/typ/json.py,     *)
(* src/typ/types/union.py).                                                *)
(*                                                                         *)
(* A Python type is a descriptor [k, n, a]: k the kind, n the class name   *)
(* (records, enumerations, tagged unions), a the type arguments.  A Python *)
(* value is the pair of its runtime type and its payload.  Floats and      *)
(* Decimals are counted in hundredths; a Decimal also carries x, the       *)
(* digits a float cannot hold (float(d) drops them).                       *)
(* Strings are members of a small universe, and the parsers and printers   *)
(* of the standard library (strptime, isoformat, UUID, int, str) are       *)
(* tables over it.                                                         *)
(***************************************************************************)
EXTENDS Integers, Sequences, FiniteSets, TLC

\* json_encoders, json_decoders: the rule lists of the json module; defaults: the default []
\* of the list parameter of dumps, dump, loads, load; extras: the rule lists the caller holds
VARIABLES json_encoders, json_decoders, defaults, extras, fp, pc, call, res

vars == <<json_encoders, json_decoders, defaults, extras, fp, pc, call, res>>

(***************************************************************************)
(* Bounds of the model.                                                    *)
(***************************************************************************)
MaxLen == 2
MaxDocs == 1

(***************************************************************************)
(* Type descriptors.                                                       *)
(***************************************************************************)
T(k, n, a) == [k |-> k, n |-> n, a |-> a]

IntT == T("int", "", <<>>)
FloatT == T("float", "", <<>>)
StrT == T("str", "", <<>>)
BoolT == T("bool", "", <<>>)
NoneType == T("NoneType", "", <<>>)
DecimalT == T("Decimal", "", <<>>)
DateT == T("date", "", <<>>)
DatetimeT == T("datetime", "", <<>>)
TimeT == T("time", "", <<>>)
UuidT == T("UUID", "", <<>>)
AnyT == T("Any", "", <<>>)
list == T("list", "", <<>>)
dict == T("dict", "", <<>>)
tuple == T("tuple", "", <<>>)
set == T("set", "", <<>>)
\* typ=None: the type argument left out
NoTyp == T("None", "", <<>>)

\* class char(str)
char == T("char", "", <<>>)

ListOf(t) == T("List", "", <<t>>)
DictOf(kt, vt) == T("Dict", "", <<kt, vt>>)
TupleOf(ts) == T("Tuple", "", ts)
SetOf(t) == T("Set", "", <<t>>)
UnionOf(ts) == T("Union", "", ts)
OptionalOf(t) == UnionOf(<<t, NoneType>>)

\* @dataclass classes: the declared field types are the arguments
Dataclass(n, ts) == T("dataclass", n, ts)
\* Enum classes
EnumT(n) == T("enum", n, <<>>)
\* @union classes, and the UnionMember subclass their instances have
TaggedT(n) == T("tagged", n, <<>>)
UnionMemberT(n) == T("UnionMember", n, <<>>)

TheClass == Dataclass("TheClass", <<StrT, IntT>>)
OneOptionalField == Dataclass("OneOptionalField", <<OptionalOf(StrT)>>)
StrangeCaseClass == Dataclass("StrangeCaseClass", <<StrT, IntT>>)
\* a record of one field, the_field, of the given type
OneField(t) == Dataclass("OneField", <<t>>)
Color == EnumT("Color")
Shape == EnumT("Shape")
Date == EnumT("Date")
\* an Enum whose members' values have different types: DAY a date, NAME a str
Mixed == EnumT("Mixed")
A == TaggedT("A")
B == TaggedT("B")

\* dataclasses.fields(typ): the names, in declaration order
FieldNames(n) ==
    CASE n = "TheClass" -> <<"string_field", "int_field">>
      [] n = "OneOptionalField" -> <<"the_field">>
      [] n = "StrangeCaseClass" -> <<"StringField", "IntField">>
      [] n = "OneField" -> <<"the_field">>
      [] OTHER -> <<>>

(***************************************************************************)
(* Values.                                                                 *)
(***************************************************************************)
\* a value is <<its runtime type, its payload>>
V(t, p) == <<t, p>>

\* type(value)
type(value) == value[1]

\* what the value holds
data(value) == value[2]

IntV(i) == V(IntT, i)
FloatV(h) == V(FloatT, h)
StrV(s) == V(StrT, s)
CharV(s) == V(char, s)
BoolV(b) == V(BoolT, b)
NoneV == V(NoneType, 0)
DecimalV(h, x) == V(DecimalT, [n |-> h, x |-> x])
DateV(y, m, d) == V(DateT, <<y, m, d>>)
DatetimeV(d, t, us, tz) == V(DatetimeT, [d |-> d, t |-> t, us |-> us, tz |-> tz])
TimeV(t, us) == V(TimeT, [t |-> t, us |-> us])
UuidV(s) == V(UuidT, s)
ListV(s) == V(list, s)
TupleV(s) == V(tuple, s)
SetV(S) == V(set, S)
\* a dict is its items in insertion order, each <<key, value>>
DictV(items) == V(dict, items)
ObjV(cls, fields) == V(cls, fields)
EnumV(cls, name) == V(cls, name)
MemberV(n, name, value) == V(UnionMemberT(n), [name |-> name, value |-> value])

\* list(typ) of an Enum class: its members with their values
EnumMembers(n) ==
    CASE n = "Color" -> << [name |-> "RED", value |-> StrV("r")],
                           [name |-> "BLUE", value |-> StrV("b")],
                           [name |-> "GREEN", value |-> StrV("g")] >>
      [] n = "Shape" -> << [name |-> "CIRCLE", value |-> IntV(0)],
                           [name |-> "RECTANGLE", value |-> IntV(1)],
                           [name |-> "ELLIPSE", value |-> IntV(2)] >>
      [] n = "Date" -> << [name |-> "NINE_ELEVEN", value |-> DateV(2001, 9, 11)],
                          [name |-> "INDEPENDENCE_DAY", value |-> DateV(1776, 7, 4)] >>
      [] n = "Mixed" -> << [name |-> "DAY", value |-> DateV(2020, 1, 2)],
                           [name |-> "NAME", value |-> StrV("bla")] >>
      [] OTHER -> <<>>

\* the __annotations__ of a @union class: case name -> payload type (None: NoTyp)
UnionMembers(n) ==
    CASE n = "A" -> << [name |-> "Number", type |-> IntT],
                       [name |-> "Date", type |-> DateT],
                       [name |-> "Unknown", type |-> NoTyp] >>
      [] n = "B" -> << [name |-> "Number", type |-> IntT],
                       [name |-> "Text", type |-> StrT],
                       [name |-> "Unknown", type |-> NoTyp] >>
      [] OTHER -> <<>>

(***************************************************************************)
(* The standard library's conversions, over the model's strings.           *)
(***************************************************************************)
Digits == <<"0", "1", "2", "3", "4", "5", "6", "7", "8", "9">>

RECURSIVE NatToStr(_)
NatToStr(i) == IF i < 10 THEN Digits[i + 1] ELSE NatToStr(i \div 10) \o Digits[(i % 10) + 1]

\* str(i) of an int
IntToStr(i) == IF i < 0 THEN "-" \o NatToStr(-i) ELSE NatToStr(i)

Ints == {0, 1, 2, 3, 4, 5, 123}

Parsed(v) == [ok |-> TRUE, v |-> v]
NotParsed == [ok |-> FALSE, v |-> 0]

\* int(s) of a str: ValueError unless s is the literal of an int
StrToInt(s) ==
    IF \E i \in Ints : IntToStr(i) = s
    THEN Parsed(CHOOSE i \in Ints : IntToStr(i) = s)
    ELSE NotParsed

Dates == {<<2020, 1, 1>>, <<2020, 1, 2>>, <<2020, 8, 1>>, <<2001, 9, 11>>, <<1776, 7, 4>>}
Times == {<<17, 45, 55>>, <<14, 43, 53>>}

TwoDigits(i) == IF i < 10 THEN "0" \o NatToStr(i) ELSE NatToStr(i)
SixDigits(i) ==
    IF i < 10 THEN "00000" \o NatToStr(i)
    ELSE IF i < 100 THEN "0000" \o NatToStr(i)
    ELSE IF i < 1000 THEN "000" \o NatToStr(i)
    ELSE IF i < 10000 THEN "00" \o NatToStr(i)
    ELSE IF i < 100000 THEN "0" \o NatToStr(i)
    ELSE NatToStr(i)

\* date.isoformat(): YYYY-MM-DD
DateIsoformat(d) == NatToStr(d[1]) \o "-" \o TwoDigits(d[2]) \o "-" \o TwoDigits(d[3])

\* the date written without zero padding, which strptime reads too
DateUnpadded(d) == NatToStr(d[1]) \o "-" \o NatToStr(d[2]) \o "-" \o NatToStr(d[3])

\* datetime.strptime(s, "%Y-%m-%d").date()
StrptimeDate(s) ==
    IF \E d \in Dates : s \in {DateIsoformat(d), DateUnpadded(d)}
    THEN Parsed(CHOOSE d \in Dates : s \in {DateIsoformat(d), DateUnpadded(d)})
    ELSE NotParsed

\* time.isoformat(): HH:MM:SS, with .ffffff when the microsecond is not 0
TimeIsoformat(p) ==
    TwoDigits(p.t[1]) \o ":" \o TwoDigits(p.t[2]) \o ":" \o TwoDigits(p.t[3])
        \o (IF p.us = 0 THEN "" ELSE "." \o SixDigits(p.us))

\* datetime.strptime(s, "%H:%M:%S").time()
StrptimeTime(s) ==
    IF \E t \in Times : s = TimeIsoformat([t |-> t, us |-> 0])
    THEN Parsed([t |-> CHOOSE t \in Times : s = TimeIsoformat([t |-> t, us |-> 0]), us |-> 0])
    ELSE NotParsed

Microseconds == {0, 123456}
Tzinfos == {"naive", "utc"}
DatetimePayloads == [d : Dates, t : Times, us : Microseconds, tz : Tzinfos]

\* datetime.isoformat(): date T time [.ffffff] [+HH:MM]
DatetimeIsoformat(p) ==
    DateIsoformat(p.d) \o "T" \o TimeIsoformat([t |-> p.t, us |-> p.us])
        \o (IF p.tz = "utc" THEN "+00:00" ELSE "")

\* datetime.strptime(s, "%Y-%m-%dT%H:%M:%S%z"): no fraction, an offset
StrptimeDatetimeSeconds(s) ==
    LET ok(p) == p.tz = "utc" /\ p.us = 0 /\ DatetimeIsoformat(p) = s
    IN IF \E p \in DatetimePayloads : ok(p)
       THEN Parsed(CHOOSE p \in DatetimePayloads : ok(p))
       ELSE NotParsed

\* datetime.strptime(s, "%Y-%m-%dT%H:%M:%S.%f%z"): a fraction and an offset
StrptimeDatetimeFraction(s) ==
    LET ok(p) == p.tz = "utc" /\ p.us # 0 /\ DatetimeIsoformat(p) = s
    IN IF \E p \in DatetimePayloads : ok(p)
       THEN Parsed(CHOOSE p \in DatetimePayloads : ok(p))
       ELSE NotParsed

Uuids == {"bd65600d-8669-4903-8a14-af88203add38"}

\* UUID(s): the canonical form of s, ValueError when s is no UUID
UuidParse(s) ==
    IF s \in Uuids THEN Parsed(s)
    ELSE IF s = "BD65600D-8669-4903-8A14-AF88203ADD38"
         THEN Parsed("bd65600d-8669-4903-8a14-af88203add38")
         ELSE NotParsed

\* float(x) of an int, a float or a Decimal, in hundredths
ToFloat(value) ==
    IF type(value) = IntT THEN FloatV(data(value) * 100)
    ELSE IF type(value) = DecimalT THEN FloatV(data(value).n)
    ELSE FloatV(data(value))

\* stringcase.snakecase over the identifiers of the model
snakecase(name) ==
    CASE name = "StringField" -> "string_field"
      [] name = "IntField" -> "int_field"
      [] name = "Number" -> "number"
      [] name = "Date" -> "date"
      [] name = "Unknown" -> "unknown"
      [] OTHER -> name

(***************************************************************************)
(* Outcomes.  A rule returns a value, returns Unsupported, or raises:      *)
(* st is "ok", "Unsupported", "JsonError" or "Exception" (any exception    *)
(* that is not a JsonError); err names what was raised.  log is the trace  *)
(* of the engine: one entry per rule invoked, in order, with the entries   *)
(* of the engine calls that rule made under it.                            *)
(***************************************************************************)
OkR(v, log) == [st |-> "ok", v |-> v, err |-> "", log |-> log]
Unsupported == [st |-> "Unsupported", v |-> NoneV, err |-> "", log |-> <<>>]
Raise(st, err, log) == [st |-> st, v |-> NoneV, err |-> err, log |-> log]
JsonError(err, log) == Raise("JsonError", err, log)

\* a check by isinstance, which takes a bool for an int
check_type_isinstance(expected_type, value) ==
    type(value) = expected_type \/ (expected_type = IntT /\ type(value) = BoolT)

\* check_type(expected_type, value), expected_type a type: TRUE when it does not raise
check_type(expected_type, value) == type(value) = expected_type

\* check_type(expected_type, value), expected_type a list of types
check_type_list(expected_type, value) == type(value) \in expected_type

TypeMismatch == JsonError("TypeMismatch", <<>>)

\* an engine that leaves every name as declared
to_json_case_identity(self, name) == name

\* Encoder.to_json_case / Decoder.to_json_case: self.case is "None" or a converter
to_json_case(self, name) ==
    IF self.case = "None" THEN name
    ELSE IF self.case = "snakecase" THEN snakecase(name)
    ELSE name

RECURSIVE EncoderEncode(_, _, _)
RECURSIVE DecoderDecode(_, _, _)

(***************************************************************************)
(* Comprehensions over engine calls: the first call that raises ends the   *)
(* comprehension.  The result's v is the sequence of converted items.      *)
(***************************************************************************)
RECURSIVE EncodeItems(_, _, _)
EncodeItems(encoder, items, types) ==
    IF items = <<>> THEN OkR(<<>>, <<>>)
    ELSE LET h == EncoderEncode(encoder, Head(items), Head(types))
         IN IF h.st # "ok" THEN h
            ELSE LET r == EncodeItems(encoder, Tail(items), Tail(types))
                 IN IF r.st # "ok" THEN [r EXCEPT !.log = h.log \o r.log]
                    ELSE OkR(<<h.v>> \o r.v, h.log \o r.log)

RECURSIVE DecodeItems(_, _, _)
DecodeItems(decoder, items, types) ==
    IF items = <<>> THEN OkR(<<>>, <<>>)
    ELSE LET h == DecoderDecode(decoder, Head(types), Head(items))
         IN IF h.st # "ok" THEN h
            ELSE LET r == DecodeItems(decoder, Tail(items), Tail(types))
                 IN IF r.st # "ok" THEN [r EXCEPT !.log = h.log \o r.log]
                    ELSE OkR(<<h.v>> \o r.v, h.log \o r.log)

Repeat(x, n) == [i \in 1..n |-> x]
Keys(items) == [i \in 1..Len(items) |-> items[i][1]]
Vals(items) == [i \in 1..Len(items) |-> items[i][2]]

\* building a dict key by key: a key already there keeps its place and takes the new value
RECURSIVE DictOfItems(_, _)
DictOfItems(keys, vals) ==
    IF keys = <<>> THEN <<>>
    ELSE LET n == Len(keys)
             front == DictOfItems(SubSeq(keys, 1, n - 1), SubSeq(vals, 1, n - 1))
         IN IF \E i \in 1..Len(front) : front[i][1] = keys[n]
            THEN [i \in 1..Len(front) |->
                     IF front[i][1] = keys[n] THEN <<keys[n], vals[n]>> ELSE front[i]]
            ELSE Append(front, <<keys[n], vals[n]>>)

\* json_value.get(key): the value under key, None when there is none
DictGet(items, key) ==
    IF \E i \in 1..Len(items) : items[i][1] = key
    THEN items[CHOOSE i \in 1..Len(items) : items[i][1] = key][2]
    ELSE NoneV

\* iterating a set: one of its enumerations, which one is up to the interpreter
SetOrder(S) ==
    CHOOSE s \in [1..Cardinality(S) -> S] : \A x \in S : \E i \in 1..Cardinality(S) : s[i] = x

Reverse(s) == [i \in 1..Len(s) |-> s[Len(s) + 1 - i]]

SetItems(self, S) == IF self.setorder = "reversed" THEN Reverse(SetOrder(S)) ELSE SetOrder(S)

(***************************************************************************)
(* The encode rules.                                                       *)
(***************************************************************************)
encode_primitive(encoder, typ, value) ==
    IF typ \notin {IntT, FloatT, StrT, BoolT, NoneType} THEN Unsupported
    ELSE IF ~check_type(typ, value) THEN TypeMismatch
    ELSE OkR(value, <<>>)

encode_char(encoder, typ, value) ==
    IF typ # char THEN Unsupported
    ELSE IF ~check_type(typ, value) THEN TypeMismatch
    ELSE OkR(StrV(data(value)), <<>>)

encode_decimal(encoder, typ, value) ==
    IF typ # DecimalT THEN Unsupported
    ELSE IF ~check_type(typ, value) THEN TypeMismatch
    ELSE OkR(ToFloat(value), <<>>)

encode_date(encoder, typ, value) ==
    IF typ # DateT THEN Unsupported
    ELSE IF ~check_type(typ, value) THEN TypeMismatch
    ELSE OkR(StrV(DateIsoformat(data(value))), <<>>)

encode_datetime(encoder, typ, value) ==
    IF typ # DatetimeT THEN Unsupported
    ELSE IF ~check_type(typ, value) THEN TypeMismatch
    ELSE OkR(StrV(DatetimeIsoformat(data(value))), <<>>)

encode_time(encoder, typ, value) ==
    IF typ # TimeT THEN Unsupported
    ELSE IF ~check_type(typ, value) THEN TypeMismatch
    ELSE OkR(StrV(TimeIsoformat(data(value))), <<>>)

encode_uuid(encoder, typ, value) ==
    IF typ # UuidT THEN Unsupported
    ELSE IF ~check_type(typ, value) THEN TypeMismatch
    ELSE OkR(StrV(data(value)), <<>>)

\* a record rule that encodes the fields through a new Encoder, of rules and case of its own
encode_dataclass_new_encoder(encoder, typ, value) ==
    IF typ.k # "dataclass" THEN Unsupported
    ELSE IF ~check_type(typ, value) THEN TypeMismatch
    ELSE LET fields == FieldNames(typ.n)
             keys == [i \in 1..Len(fields) |-> StrV(to_json_case(encoder, fields[i]))]
             r == EncodeItems([rules |-> <<"encode_primitive", "encode_date", "encode_generic_list",
                                          "encode_dataclass", "encode_any">>,
                               case |-> "None", setorder |-> encoder.setorder],
                              data(value), typ.a)
         IN IF r.st # "ok" THEN r ELSE OkR(DictV(DictOfItems(keys, r.v)), r.log)

encode_dataclass(encoder, typ, value) ==
    IF typ.k # "dataclass" THEN Unsupported
    ELSE IF ~check_type(typ, value) THEN TypeMismatch
    ELSE LET fields == FieldNames(typ.n)
             keys == [i \in 1..Len(fields) |-> StrV(to_json_case(encoder, fields[i]))]
             r == EncodeItems(encoder, data(value), typ.a)
         IN IF r.st # "ok" THEN r ELSE OkR(DictV(DictOfItems(keys, r.v)), r.log)

\* member.value of an Enum member
EnumValue(n, name) ==
    LET ms == EnumMembers(n)
    IN ms[CHOOSE i \in 1..Len(ms) : ms[i].name = name].value

encode_enum(encoder, typ, value) ==
    IF typ.k # "enum" THEN Unsupported
    ELSE IF ~check_type(typ, value) THEN TypeMismatch
    ELSE EncoderEncode(encoder, EnumValue(typ.n, data(value)), NoTyp)

encode_generic_list(encoder, typ, value) ==
    IF typ.k # "List" THEN Unsupported
    ELSE IF ~check_type(list, value) THEN TypeMismatch
    ELSE LET r == EncodeItems(encoder, data(value), Repeat(typ.a[1], Len(data(value))))
         IN IF r.st # "ok" THEN r ELSE OkR(ListV(r.v), r.log)

encode_generic_dict(encoder, typ, value) ==
    IF typ.k # "Dict" THEN Unsupported
    ELSE IF ~check_type(dict, value) THEN TypeMismatch
    ELSE IF typ.a[1] # StrT THEN JsonError("DictKeyType", <<>>)
    ELSE LET r == EncodeItems(encoder, Vals(data(value)), Repeat(typ.a[2], Len(data(value))))
         IN IF r.st # "ok" THEN r ELSE OkR(DictV(DictOfItems(Keys(data(value)), r.v)), r.log)

encode_generic_tuple(encoder, typ, value) ==
    IF typ.k # "Tuple" THEN Unsupported
    ELSE IF ~check_type(tuple, value) THEN TypeMismatch
    ELSE IF Len(typ.a) # Len(data(value)) THEN JsonError("TupleSize", <<>>)
    ELSE LET r == EncodeItems(encoder, data(value), typ.a)
         IN IF r.st # "ok" THEN r ELSE OkR(TupleV(r.v), r.log)

encode_generic_set(encoder, typ, value) ==
    IF typ.k # "Set" THEN Unsupported
    ELSE IF ~check_type(set, value) THEN TypeMismatch
    ELSE LET items == SetItems(encoder, data(value))
             r == EncodeItems(encoder, items, Repeat(typ.a[1], Len(items)))
         IN IF r.st # "ok" THEN r ELSE OkR(ListV(r.v), r.log)

\* the loop of encode_union: the first alternative that does not raise JsonError
RECURSIVE EncodeAlternatives(_, _, _)
EncodeAlternatives(encoder, union_types, value) ==
    IF union_types = <<>> THEN JsonError("AllAlternativesFailed", <<>>)
    ELSE LET h == EncoderEncode(encoder, value, Head(union_types))
         IN IF h.st # "JsonError" THEN h
            ELSE LET r == EncodeAlternatives(encoder, Tail(union_types), value)
                 IN [r EXCEPT !.log = h.log \o r.log]

encode_union(encoder, typ, value) ==
    IF typ.k # "Union" THEN Unsupported
    ELSE EncodeAlternatives(encoder, typ.a, value)

\* union.isunion(klass): the class, or the UnionMember subclass of it, has __union_members
isunion(klass) == klass.k \in {"tagged", "UnionMember"}

\* union._isinstance_member(member)
IsinstanceMember(obj) == type(obj).k = "UnionMember"

\* union.members(klass)[name], NoTyp for a case declared None
MemberType(n, name) ==
    LET ms == UnionMembers(n)
    IN ms[CHOOSE i \in 1..Len(ms) : ms[i].name = name].type

\* a tagged-union rule that gives the encoded payload without its one-key object
encode_tagged_union_bare(encoder, typ, value) ==
    IF ~isunion(typ) THEN Unsupported
    ELSE IF ~IsinstanceMember(value) THEN Raise("Exception", "ValueError", <<>>)
    ELSE EncoderEncode(encoder, data(value).value, MemberType(type(value).n, data(value).name))

encode_tagged_union(encoder, typ, value) ==
    IF ~isunion(typ) THEN Unsupported
    ELSE IF ~IsinstanceMember(value) THEN Raise("Exception", "ValueError", <<>>)
    ELSE LET json_value_key == to_json_case(encoder, data(value).name)
             r == EncoderEncode(encoder, data(value).value, MemberType(type(value).n, data(value).name))
         IN IF r.st # "ok" THEN r
            ELSE OkR(DictV(<< <<StrV(json_value_key), r.v>> >>), r.log)

encode_any(encoder, typ, value) ==
    IF typ # AnyT THEN Unsupported
    ELSE EncoderEncode(encoder, value, type(value))

\* a list rule that encodes every item by the runtime type of the first
encode_list_uniform(encoder, typ, value) ==
    IF typ # list THEN Unsupported
    ELSE IF ~check_type(list, value) THEN TypeMismatch
    ELSE IF data(value) = <<>> THEN OkR(ListV(<<>>), <<>>)
    ELSE LET r == EncodeItems(encoder, data(value),
                              Repeat(type(data(value)[1]), Len(data(value))))
         IN IF r.st # "ok" THEN r ELSE OkR(ListV(r.v), r.log)

encode_list(encoder, typ, value) ==
    IF typ # list THEN Unsupported
    ELSE IF ~check_type(list, value) THEN TypeMismatch
    ELSE LET r == EncodeItems(encoder, data(value), Repeat(NoTyp, Len(data(value))))
         IN IF r.st # "ok" THEN r ELSE OkR(ListV(r.v), r.log)

encode_dict(encoder, typ, value) ==
    IF typ # dict THEN Unsupported
    ELSE IF ~check_type(dict, value) THEN TypeMismatch
    ELSE LET r == EncodeItems(encoder, Vals(data(value)), Repeat(NoTyp, Len(data(value))))
         IN IF r.st # "ok" THEN r ELSE OkR(DictV(DictOfItems(Keys(data(value)), r.v)), r.log)

encode_tuple(encoder, typ, value) ==
    IF typ # tuple THEN Unsupported
    ELSE IF ~check_type(tuple, value) THEN TypeMismatch
    ELSE LET r == EncodeItems(encoder, data(value), Repeat(NoTyp, Len(data(value))))
         IN IF r.st # "ok" THEN r ELSE OkR(ListV(r.v), r.log)

encode_set(encoder, typ, value) ==
    IF typ # set THEN Unsupported
    ELSE IF ~check_type(set, value) THEN TypeMismatch
    ELSE LET items == SetItems(encoder, data(value))
             r == EncodeItems(encoder, items, Repeat(NoTyp, Len(items)))
         IN IF r.st # "ok" THEN r ELSE OkR(ListV(r.v), r.log)

\* a caller's rule: ints as their decimal literal
encode_int_custom(encoder, typ, value) ==
    IF typ # IntT THEN Unsupported
    ELSE IF ~check_type(IntT, value) THEN TypeMismatch
    ELSE OkR(StrV(IntToStr(data(value))), <<>>)

(***************************************************************************)
(* Python's == and isinstance, as the rules use them.                      *)
(***************************************************************************)
\* class Shape(IntEnum): its members are ints too
IsIntEnum(typ) == typ.k = "enum" /\ typ.n = "Shape"

IsNumber(a) == type(a) \in {IntT, BoolT, FloatT, DecimalT} \/ IsIntEnum(type(a))

\* the number in hundredths, and whether a binary float holds it exactly
Hundredths(a) ==
    IF type(a) = IntT THEN data(a) * 100
    ELSE IF type(a) = BoolT THEN (IF data(a) THEN 100 ELSE 0)
    ELSE IF type(a) = FloatT THEN data(a)
    ELSE IF type(a) = DecimalT THEN data(a).n
    ELSE data(EnumValue(type(a).n, data(a))) * 100

NumberEq(a, b) ==
    /\ Hundredths(a) = Hundredths(b)
    /\ (type(a) = DecimalT /\ type(b) = DecimalT) => data(a).x = data(b).x
    /\ (type(a) = DecimalT /\ type(b) # DecimalT) => data(a).x = 0
    /\ (type(b) = DecimalT /\ type(a) # DecimalT) => data(b).x = 0
    /\ ({type(a), type(b)} = {DecimalT, FloatT}) => Hundredths(a) % 25 = 0

RECURSIVE PyEq(_, _)
PyEq(a, b) ==
    IF IsNumber(a) /\ IsNumber(b) THEN NumberEq(a, b)
    ELSE IF type(a) \in {StrT, char} /\ type(b) \in {StrT, char} THEN data(a) = data(b)
    ELSE IF type(a) # type(b) THEN FALSE
    ELSE IF type(a) \in {list, tuple} \/ type(a).k = "dataclass"
         THEN Len(data(a)) = Len(data(b)) /\ \A i \in 1..Len(data(a)) : PyEq(data(a)[i], data(b)[i])
    ELSE IF type(a) = set
         THEN (\A x \in data(a) : \E y \in data(b) : PyEq(x, y)) /\ (\A y \in data(b) : \E x \in data(a) : PyEq(x, y))
    ELSE IF type(a) = dict
         THEN /\ Len(data(a)) = Len(data(b))
              /\ \A i \in 1..Len(data(a)) : \E j \in 1..Len(data(b)) :
                    PyEq(data(a)[i][1], data(b)[j][1]) /\ PyEq(data(a)[i][2], data(b)[j][2])
    ELSE IF type(a).k = "UnionMember"
         THEN data(a).name = data(b).name /\ PyEq(data(a).value, data(b).value)
    ELSE data(a) = data(b)

\* isinstance(value, typ) for a class typ
Isinstance(value, typ) ==
    \/ type(value) = typ
    \/ typ = IntT /\ (type(value) = BoolT \/ IsIntEnum(type(value)))
    \/ typ = StrT /\ type(value) = char
    \/ typ = DateT /\ type(value) = DatetimeT
    \/ typ.k = "tagged" /\ type(value) = UnionMemberT(typ.n)

\* the types isinstance accepts as its second argument: classes, no typing generics
IsClass(typ) == typ.k \notin {"List", "Dict", "Tuple", "Set", "Union", "Any", "None"}

\* hash(value) works: lists, dicts, sets and (eq, not frozen) dataclass instances have no hash
RECURSIVE Hashable(_)
Hashable(value) ==
    IF type(value) \in {list, dict, set} \/ type(value).k = "dataclass" THEN FALSE
    ELSE IF type(value) = tuple THEN \A i \in 1..Len(data(value)) : Hashable(data(value)[i])
    ELSE IF type(value).k = "UnionMember" THEN Hashable(data(value).value)
    ELSE TRUE

\* set(items): an item equal to an earlier one is dropped
RECURSIVE PySet(_)
PySet(items) ==
    IF items = <<>> THEN {}
    ELSE LET n == Len(items)
             front == PySet(SubSeq(items, 1, n - 1))
         IN IF \E x \in front : PyEq(x, items[n]) THEN front ELSE front \cup {items[n]}

(***************************************************************************)
(* The decode rules.                                                       *)
(***************************************************************************)
\* a primitive rule without its check_type
decode_primitive_unchecked(decoder, typ, json_value) ==
    IF typ \notin {IntT, DecimalT, StrT, BoolT, NoneType} THEN Unsupported
    ELSE OkR(json_value, <<>>)

decode_primitive(decoder, typ, json_value) ==
    IF typ \notin {IntT, DecimalT, StrT, BoolT, NoneType} THEN Unsupported
    ELSE IF ~check_type(typ, json_value) THEN TypeMismatch
    ELSE OkR(json_value, <<>>)

decode_char(decoder, typ, json_value) ==
    IF typ # char THEN Unsupported
    ELSE IF ~check_type(StrT, json_value) THEN TypeMismatch
    ELSE IF Len(data(json_value)) # 1 THEN JsonError("CharLength", <<>>)
    ELSE OkR(json_value, <<>>)

decode_float(decoder, typ, json_value) ==
    IF typ # FloatT THEN Unsupported
    ELSE IF ~check_type_list({IntT, FloatT, DecimalT}, json_value) THEN TypeMismatch
    ELSE OkR(ToFloat(json_value), <<>>)

\* a date rule that leaves a value that is not a str to the rules after it
decode_date_declining(decoder, typ, json_value) ==
    IF typ # DateT \/ ~check_type(StrT, json_value) THEN Unsupported
    ELSE LET parsed_datetime == StrptimeDate(data(json_value))
         IN IF ~parsed_datetime.ok THEN Raise("Exception", "ValueError", <<>>)
            ELSE OkR(V(DateT, parsed_datetime.v), <<>>)

decode_date(decoder, typ, json_value) ==
    IF typ # DateT THEN Unsupported
    ELSE IF ~check_type(StrT, json_value) THEN TypeMismatch
    ELSE LET parsed_datetime == StrptimeDate(data(json_value))
         IN IF ~parsed_datetime.ok THEN Raise("Exception", "ValueError", <<>>)
            ELSE OkR(V(DateT, parsed_datetime.v), <<>>)

decode_datetime(decoder, typ, json_value) ==
    IF typ # DatetimeT THEN Unsupported
    ELSE IF ~check_type(StrT, json_value) THEN TypeMismatch
    ELSE LET first == StrptimeDatetimeSeconds(data(json_value))
             second == StrptimeDatetimeFraction(data(json_value))
         IN IF first.ok THEN OkR(V(DatetimeT, first.v), <<>>)
            ELSE IF second.ok THEN OkR(V(DatetimeT, second.v), <<>>)
            ELSE JsonError("NoDatetimeFormat", <<>>)

decode_time(decoder, typ, json_value) ==
    IF typ # TimeT THEN Unsupported
    ELSE IF ~check_type(StrT, json_value) THEN TypeMismatch
    ELSE LET parsed_datetime == StrptimeTime(data(json_value))
         IN IF ~parsed_datetime.ok THEN Raise("Exception", "ValueError", <<>>)
            ELSE OkR(V(TimeT, parsed_datetime.v), <<>>)

decode_uuid(decoder, typ, json_value) ==
    IF typ # UuidT THEN Unsupported
    ELSE IF ~check_type(StrT, json_value) THEN TypeMismatch
    ELSE LET parsed == UuidParse(data(json_value))
         IN IF ~parsed.ok THEN Raise("Exception", "ValueError", <<>>)
            ELSE OkR(UuidV(parsed.v), <<>>)

\* json_value.get(decoder.to_json_case(field.name)) of decode_dataclass
FieldJson(decoder, json_value, name) == DictGet(data(json_value), StrV(to_json_case(decoder, name)))

\* a record rule that refuses an object with a key no field declares
decode_dataclass_closed(decoder, typ, json_value) ==
    IF typ.k # "dataclass" THEN Unsupported
    ELSE IF ~check_type(dict, json_value) THEN TypeMismatch
    ELSE LET fields == FieldNames(typ.n)
             declared == {StrV(to_json_case(decoder, fields[i])) : i \in 1..Len(fields)}
             items == [i \in 1..Len(fields) |-> FieldJson(decoder, json_value, fields[i])]
             r == DecodeItems(decoder, items, typ.a)
         IN IF \E k \in 1..Len(data(json_value)) : data(json_value)[k][1] \notin declared
            THEN JsonError("UndeclaredKey", <<>>)
            ELSE IF r.st # "ok" THEN r ELSE OkR(ObjV(typ, r.v), r.log)

\* a record rule that reads json_value[key] in place of json_value.get(key)
decode_dataclass_subscript(decoder, typ, json_value) ==
    IF typ.k # "dataclass" THEN Unsupported
    ELSE IF ~check_type(dict, json_value) THEN TypeMismatch
    ELSE LET fields == FieldNames(typ.n)
             present(i) == \E k \in 1..Len(data(json_value)) :
                              data(json_value)[k][1] = StrV(to_json_case(decoder, fields[i]))
             items == [i \in 1..Len(fields) |-> FieldJson(decoder, json_value, fields[i])]
             r == DecodeItems(decoder, items, typ.a)
         IN IF \E i \in 1..Len(fields) : ~present(i) THEN Raise("Exception", "KeyError", <<>>)
            ELSE IF r.st # "ok" THEN r ELSE OkR(ObjV(typ, r.v), r.log)

decode_dataclass(decoder, typ, json_value) ==
    IF typ.k # "dataclass" THEN Unsupported
    ELSE IF ~check_type(dict, json_value) THEN TypeMismatch
    ELSE LET fields == FieldNames(typ.n)
             items == [i \in 1..Len(fields) |-> FieldJson(decoder, json_value, fields[i])]
             r == DecodeItems(decoder, items, typ.a)
         IN IF r.st # "ok" THEN r ELSE OkR(ObjV(typ, r.v), r.log)

\* a loop of decode_enum that lets the exception of a member's attempt out
RECURSIVE DecodeEnumMembersRaising(_, _, _, _)
DecodeEnumMembersRaising(decoder, typ, members, json_value) ==
    IF members = <<>> THEN JsonError("NoEnumMember", <<>>)
    ELSE LET member == Head(members)
             h == DecoderDecode(decoder, type(member.value), json_value)
         IN IF h.st # "ok" THEN h
            ELSE IF PyEq(member.value, h.v) THEN OkR(EnumV(typ, member.name), h.log)
            ELSE LET r == DecodeEnumMembersRaising(decoder, typ, Tail(members), json_value)
                 IN [r EXCEPT !.log = h.log \o r.log]

\* the loop of decode_enum: any exception of one member's attempt is dropped
RECURSIVE DecodeEnumMembers(_, _, _, _)
DecodeEnumMembers(decoder, typ, members, json_value) ==
    IF members = <<>> THEN JsonError("NoEnumMember", <<>>)
    ELSE LET member == Head(members)
             h == DecoderDecode(decoder, type(member.value), json_value)
         IN IF h.st = "ok" /\ PyEq(member.value, h.v)
            THEN OkR(EnumV(typ, member.name), h.log)
            ELSE LET r == DecodeEnumMembers(decoder, typ, Tail(members), json_value)
                 IN [r EXCEPT !.log = h.log \o r.log]

decode_enum(decoder, typ, json_value) ==
    IF typ.k # "enum" THEN Unsupported
    ELSE DecodeEnumMembers(decoder, typ, EnumMembers(typ.n), json_value)

decode_generic_list(decoder, typ, json_value) ==
    IF typ.k # "List" THEN Unsupported
    ELSE IF ~check_type(list, json_value) THEN TypeMismatch
    ELSE LET r == DecodeItems(decoder, data(json_value), Repeat(typ.a[1], Len(data(json_value))))
         IN IF r.st # "ok" THEN r ELSE OkR(ListV(r.v), r.log)

\* a dict rule that puts the keys through the case converter
decode_generic_dict_cased(decoder, typ, json_value) ==
    IF typ.k # "Dict" THEN Unsupported
    ELSE IF ~check_type(dict, json_value) THEN TypeMismatch
    ELSE IF typ.a[1] # StrT THEN JsonError("DictKeyType", <<>>)
    ELSE LET r == DecodeItems(decoder, Vals(data(json_value)), Repeat(typ.a[2], Len(data(json_value))))
             keys == [i \in 1..Len(data(json_value)) |->
                        IF type(data(json_value)[i][1]) = StrT
                        THEN StrV(to_json_case(decoder, data(data(json_value)[i][1])))
                        ELSE data(json_value)[i][1]]
         IN IF r.st # "ok" THEN r
            ELSE OkR(DictV(DictOfItems(keys, r.v)), r.log)

decode_generic_dict(decoder, typ, json_value) ==
    IF typ.k # "Dict" THEN Unsupported
    ELSE IF ~check_type(dict, json_value) THEN TypeMismatch
    ELSE IF typ.a[1] # StrT THEN JsonError("DictKeyType", <<>>)
    ELSE LET r == DecodeItems(decoder, Vals(data(json_value)), Repeat(typ.a[2], Len(data(json_value))))
         IN IF r.st # "ok" THEN r
            ELSE OkR(DictV(DictOfItems(Keys(data(json_value)), r.v)), r.log)

decode_generic_tuple(decoder, typ, json_value) ==
    IF typ.k # "Tuple" THEN Unsupported
    ELSE IF ~check_type(list, json_value) THEN TypeMismatch
    ELSE IF Len(typ.a) # Len(data(json_value)) THEN JsonError("TupleSize", <<>>)
    ELSE LET r == DecodeItems(decoder, data(json_value), typ.a)
         IN IF r.st # "ok" THEN r ELSE OkR(TupleV(r.v), r.log)

decode_generic_set(decoder, typ, json_value) ==
    IF typ.k # "Set" THEN Unsupported
    ELSE IF ~check_type(list, json_value) THEN TypeMismatch
    ELSE LET r == DecodeItems(decoder, data(json_value), Repeat(typ.a[1], Len(data(json_value))))
         IN IF r.st # "ok" THEN r
            ELSE IF \E i \in 1..Len(r.v) : ~Hashable(r.v[i])
                 THEN Raise("Exception", "TypeError", r.log)
                 ELSE OkR(SetV(PySet(r.v)), r.log)

\* the loop of decode_union: the first alternative that does not raise JsonError
RECURSIVE DecodeAlternativesBackwards(_, _, _)
RECURSIVE DecodeAlternatives(_, _, _)
\* a loop over the alternatives from the last declared to the first
DecodeAlternativesBackwards(decoder, union_types, json_value) ==
    IF union_types = <<>> THEN JsonError("AllAlternativesFailed", <<>>)
    ELSE LET n == Len(union_types)
             h == DecoderDecode(decoder, union_types[n], json_value)
         IN IF h.st # "JsonError" THEN h
            ELSE LET r == DecodeAlternativesBackwards(decoder, SubSeq(union_types, 1, n - 1), json_value)
                 IN [r EXCEPT !.log = h.log \o r.log]

DecodeAlternatives(decoder, union_types, json_value) ==
    IF union_types = <<>> THEN JsonError("AllAlternativesFailed", <<>>)
    ELSE LET h == DecoderDecode(decoder, Head(union_types), json_value)
         IN IF h.st # "JsonError" THEN h
            ELSE LET r == DecodeAlternatives(decoder, Tail(union_types), json_value)
                 IN [r EXCEPT !.log = h.log \o r.log]

decode_union(decoder, typ, json_value) ==
    IF typ.k # "Union" THEN Unsupported
    ELSE DecodeAlternatives(decoder, typ.a, json_value)

\* a lookup that compares the key with the declared names, unconverted
FindMemberDeclared(decoder, members, json_value_key) ==
    LET hit(i) == type(json_value_key) \in {StrT, char} /\ members[i].name = data(json_value_key)
    IN IF \E i \in 1..Len(members) : hit(i)
       THEN CHOOSE i \in 1..Len(members) : hit(i) /\ \A j \in 1..(i - 1) : ~hit(j)
       ELSE 0

\* next((m for m in union.members(typ) if decoder.to_json_case(m) == key), None): 0 for None
FindMember(decoder, members, json_value_key) ==
    LET hit(i) == type(json_value_key) \in {StrT, char}
                  /\ to_json_case(decoder, members[i].name) = data(json_value_key)
    IN IF \E i \in 1..Len(members) : hit(i)
       THEN CHOOSE i \in 1..Len(members) : hit(i) /\ \A j \in 1..(i - 1) : ~hit(j)
       ELSE 0

\* union.create_member(typ, member_name, arg): the creator's asserts included
create_member(typ, member_name, member_type, arg) ==
    IF member_type = NoTyp THEN OkR(MemberV(typ.n, member_name, NoneV), <<>>)
    ELSE IF ~IsClass(member_type) THEN Raise("Exception", "TypeError", <<>>)
    ELSE IF ~Isinstance(arg, member_type) THEN Raise("Exception", "AssertionError", <<>>)
    ELSE OkR(MemberV(typ.n, member_name, arg), <<>>)

decode_tagged_union(decoder, typ, json_value) ==
    IF ~isunion(typ) THEN Unsupported
    ELSE IF ~check_type(dict, json_value) THEN TypeMismatch
    ELSE IF Len(data(json_value)) # 1 THEN JsonError("SingleField", <<>>)
    ELSE LET json_value_key == data(json_value)[1][1]
             json_value_val == data(json_value)[1][2]
             members == UnionMembers(typ.n)
             member == FindMember(decoder, members, json_value_key)
         IN IF member = 0 THEN Raise("Exception", "KeyError", <<>>)
            ELSE IF members[member].type = NoTyp
                 THEN create_member(typ, members[member].name, NoTyp, NoneV)
                 ELSE LET r == DecoderDecode(decoder, members[member].type, json_value_val)
                      IN IF r.st # "ok" THEN r
                         ELSE [create_member(typ, members[member].name,
                                             members[member].type, r.v)
                                 EXCEPT !.log = r.log]

\* an any rule that hands the interchange value back as it is
decode_any_unchanged(decoder, typ, json_value) ==
    IF typ # AnyT THEN Unsupported
    ELSE OkR(json_value, <<>>)

decode_any(decoder, typ, json_value) ==
    IF typ # AnyT THEN Unsupported
    ELSE DecoderDecode(decoder, type(json_value), json_value)

\* a caller's rule: ints from their decimal literal
decode_int_custom(decoder, typ, json_value) ==
    IF typ # IntT THEN Unsupported
    ELSE IF ~check_type(StrT, json_value) THEN TypeMismatch
    ELSE LET parsed == StrToInt(data(json_value))
         IN IF ~parsed.ok THEN Raise("Exception", "ValueError", <<>>)
            ELSE OkR(IntV(parsed.v), <<>>)

(***************************************************************************)
(* The engine: Encoder.encode and Decoder.decode.  An engine is            *)
(* [rules, case, setorder]: its rule list, its case converter, and the     *)
(* order in which this interpreter iterates a set.                         *)
(***************************************************************************)
Engine(rules, case, setorder) == [rules |-> rules, case |-> case, setorder |-> setorder]

\* encoder(self, typ, value): the call of one rule of the list
ApplyEncoder(rule, encoder, typ, value) ==
    CASE rule = "encode_primitive" -> encode_primitive(encoder, typ, value)
      [] rule = "encode_char" -> encode_char(encoder, typ, value)
      [] rule = "encode_decimal" -> encode_decimal(encoder, typ, value)
      [] rule = "encode_date" -> encode_date(encoder, typ, value)
      [] rule = "encode_datetime" -> encode_datetime(encoder, typ, value)
      [] rule = "encode_time" -> encode_time(encoder, typ, value)
      [] rule = "encode_uuid" -> encode_uuid(encoder, typ, value)
      [] rule = "encode_generic_list" -> encode_generic_list(encoder, typ, value)
      [] rule = "encode_generic_dict" -> encode_generic_dict(encoder, typ, value)
      [] rule = "encode_generic_tuple" -> encode_generic_tuple(encoder, typ, value)
      [] rule = "encode_generic_set" -> encode_generic_set(encoder, typ, value)
      [] rule = "encode_union" -> encode_union(encoder, typ, value)
      [] rule = "encode_dataclass" -> encode_dataclass(encoder, typ, value)
      [] rule = "encode_enum" -> encode_enum(encoder, typ, value)
      [] rule = "encode_tagged_union" -> encode_tagged_union(encoder, typ, value)
      [] rule = "encode_any" -> encode_any(encoder, typ, value)
      [] rule = "encode_list" -> encode_list(encoder, typ, value)
      [] rule = "encode_dict" -> encode_dict(encoder, typ, value)
      [] rule = "encode_tuple" -> encode_tuple(encoder, typ, value)
      [] rule = "encode_set" -> encode_set(encoder, typ, value)
      [] rule = "encode_int_custom" -> encode_int_custom(encoder, typ, value)
      [] OTHER -> Unsupported

\* decoder(self, typ, json_value)
ApplyDecoder(rule, decoder, typ, json_value) ==
    CASE rule = "decode_primitive" -> decode_primitive(decoder, typ, json_value)
      [] rule = "decode_char" -> decode_char(decoder, typ, json_value)
      [] rule = "decode_float" -> decode_float(decoder, typ, json_value)
      [] rule = "decode_date" -> decode_date(decoder, typ, json_value)
      [] rule = "decode_datetime" -> decode_datetime(decoder, typ, json_value)
      [] rule = "decode_time" -> decode_time(decoder, typ, json_value)
      [] rule = "decode_uuid" -> decode_uuid(decoder, typ, json_value)
      [] rule = "decode_generic_list" -> decode_generic_list(decoder, typ, json_value)
      [] rule = "decode_generic_dict" -> decode_generic_dict(decoder, typ, json_value)
      [] rule = "decode_generic_tuple" -> decode_generic_tuple(decoder, typ, json_value)
      [] rule = "decode_generic_set" -> decode_generic_set(decoder, typ, json_value)
      [] rule = "decode_union" -> decode_union(decoder, typ, json_value)
      [] rule = "decode_dataclass" -> decode_dataclass(decoder, typ, json_value)
      [] rule = "decode_enum" -> decode_enum(decoder, typ, json_value)
      [] rule = "decode_tagged_union" -> decode_tagged_union(decoder, typ, json_value)
      [] rule = "decode_any" -> decode_any(decoder, typ, json_value)
      [] rule = "decode_int_custom" -> decode_int_custom(decoder, typ, json_value)
      [] OTHER -> Unsupported

LogEntry(rule, typ, result) == [rule |-> rule, typ |-> typ, st |-> result.st, sub |-> result.log]

\* a loop that lets a later applicable rule replace the outcome of an earlier one
FirstApplicableOverwritten(rules, typ, results) ==
    LET applicable == {i \in 1..Len(rules) : results[i].st # "Unsupported"}
        last == IF applicable = {} THEN Len(rules)
                ELSE CHOOSE i \in applicable : \A j \in applicable : j <= i
        log == [i \in 1..last |-> LogEntry(rules[i], typ, results[i])]
    IN IF applicable = {} THEN JsonError("UnsupportedType", log)
       ELSE [results[last] EXCEPT !.log = log]

\* a loop that goes on to the next rule when a rule raises, and raises only at the end
FirstApplicableFallingThrough(rules, typ, results) ==
    LET accepted == {i \in 1..Len(rules) : results[i].st = "ok"}
        raised == {i \in 1..Len(rules) : results[i].st \notin {"ok", "Unsupported"}}
        last == IF accepted # {} THEN CHOOSE i \in accepted : \A j \in accepted : i <= j
                ELSE Len(rules)
        log == [i \in 1..last |-> LogEntry(rules[i], typ, results[i])]
    IN IF accepted # {} THEN [results[last] EXCEPT !.log = log]
       ELSE IF raised # {}
            THEN [results[CHOOSE i \in raised : \A j \in raised : i <= j] EXCEPT !.log = log]
       ELSE JsonError("UnsupportedType", log)

\* the for loop of Decoder.decode and of Encoder.encode over the rule list: results[i] is
\* what rule i gives; the loop stops at the first rule that does not return Unsupported, and
\* raises 'Unsupported type' when there is none.  The log holds the rules it invoked.
FirstApplicable(rules, typ, results) ==
    LET applicable == {i \in 1..Len(rules) : results[i].st # "Unsupported"}
        last == IF applicable = {} THEN Len(rules)
                ELSE CHOOSE i \in applicable : \A j \in applicable : i <= j
        log == [i \in 1..last |-> LogEntry(rules[i], typ, results[i])]
    IN IF applicable = {} THEN JsonError("UnsupportedType", log)
       ELSE [results[last] EXCEPT !.log = log]

\* the rules a Decoder or an Encoder invokes are called with that object as self: the log
\* of its loop names the rule list and the case converter self holds
BySelf(self, result) ==
    [result EXCEPT !.log = [i \in 1..Len(result.log) |->
        [rule |-> result.log[i].rule, typ |-> result.log[i].typ, st |-> result.log[i].st,
         sub |-> result.log[i].sub, rules |-> self.rules, case |-> self.case]]]

DecoderDecode(decoder, typ, json_value) ==
    BySelf(decoder,
           FirstApplicable(decoder.rules, typ,
                           [i \in 1..Len(decoder.rules) |->
                               ApplyDecoder(decoder.rules[i], decoder, typ, json_value)]))

\* typ = typ if typ is not None else type(value)
EncoderEncode(encoder, value, typ) ==
    LET given == IF typ # NoTyp THEN typ ELSE type(value)
    IN BySelf(encoder,
              FirstApplicable(encoder.rules, given,
                              [i \in 1..Len(encoder.rules) |->
                                  ApplyEncoder(encoder.rules[i], encoder, given, value)]))

\* except Exception as error: ... raise JsonError(...): whatever was raised leaves as JsonError
WrapError(r) == IF r.st = "ok" THEN r ELSE [r EXCEPT !.st = "JsonError"]

\* typ.encoding.decode(typ, json_value, case, decoders)
decode(typ, json_value, case, decoders, setorder) ==
    WrapError(DecoderDecode(Engine(decoders, case, setorder), typ, json_value))

\* typ.encoding.encode(value, typ, case, encoders)
encode(value, typ, case, encoders, setorder) ==
    WrapError(EncoderEncode(Engine(encoders, case, setorder), value, typ))

\* typ.encoding.json_encoders
EncodingJsonEncoders ==
    << "encode_primitive", "encode_char", "encode_decimal", "encode_date", "encode_datetime",
       "encode_time", "encode_uuid", "encode_generic_list", "encode_generic_dict",
       "encode_generic_tuple", "encode_generic_set", "encode_union", "encode_dataclass",
       "encode_enum", "encode_tagged_union", "encode_any", "encode_list", "encode_dict",
       "encode_tuple", "encode_set" >>

\* typ.encoding.json_decoders
EncodingJsonDecoders ==
    << "decode_primitive", "decode_char", "decode_float", "decode_date", "decode_datetime",
       "decode_time", "decode_uuid", "decode_generic_list", "decode_generic_dict",
       "decode_generic_tuple", "decode_generic_set", "decode_union", "decode_dataclass",
       "decode_enum", "decode_tagged_union", "decode_any" >>

\* typ.json.json_encoders, which dumps and dump use
JsonEncoders ==
    << "encode_primitive", "encode_char", "encode_decimal", "encode_date", "encode_datetime",
       "encode_time", "encode_uuid", "encode_generic_list", "encode_generic_dict",
       "encode_generic_tuple", "encode_generic_set", "encode_union", "encode_dataclass",
       "encode_any", "encode_list", "encode_dict", "encode_tuple", "encode_set" >>

\* typ.json.json_decoders, which loads and load use
JsonDecoders ==
    << "decode_primitive", "decode_char", "decode_float", "decode_date", "decode_datetime",
       "decode_time", "decode_uuid", "decode_generic_list", "decode_generic_dict",
       "decode_generic_tuple", "decode_generic_set", "decode_union", "decode_dataclass",
       "decode_any" >>

(***************************************************************************)
(* The json module.  A JSON text is the tree of its literals: null, true   *)
(* and false, integer literals, real literals (RealT, the digits as        *)
(* written), strings, arrays and objects.                                  *)
(***************************************************************************)
RealT == T("real", "", <<>>)
RealV(h, x) == V(RealT, [n |-> h, x |-> x])
\* a text that is no JSON document
InvalidText == V(T("invalid", "", <<>>), 0)
\* what json.dump has written when it raises half way
PartialText == V(T("partial", "", <<>>), 0)

\* repr(f) of a float in hundredths: 1.5, 1.23, 3.0
FloatRepr(h) ==
    NatToStr(h \div 100) \o "."
        \o (IF (h % 100) % 10 = 0 THEN NatToStr((h % 100) \div 10) ELSE TwoDigits(h % 100))

\* the key json.dumps writes for a dict key: str, int, float, bool and None only
JsonKey(key) ==
    IF type(key) \in {StrT, char} THEN Parsed(StrV(data(key)))
    ELSE IF type(key) = IntT THEN Parsed(StrV(IntToStr(data(key))))
    ELSE IF IsIntEnum(type(key)) THEN Parsed(StrV(IntToStr(data(EnumValue(type(key).n, data(key))))))
    ELSE IF type(key) = BoolT THEN Parsed(StrV(IF data(key) THEN "true" ELSE "false"))
    ELSE IF type(key) = NoneType THEN Parsed(StrV("null"))
    ELSE IF type(key) = FloatT THEN Parsed(StrV(FloatRepr(data(key))))
    ELSE NotParsed

\* json.dumps(obj): TypeError (not ok) for what JSON cannot hold
RECURSIVE JsonDumps(_)
JsonDumps(obj) ==
    IF type(obj) \in {NoneType, BoolT, IntT} THEN Parsed(obj)
    ELSE IF type(obj) \in {StrT, char} THEN Parsed(StrV(data(obj)))
    ELSE IF IsIntEnum(type(obj)) THEN Parsed(EnumValue(type(obj).n, data(obj)))
    ELSE IF type(obj) = FloatT THEN Parsed(RealV(data(obj), 0))
    ELSE IF type(obj) \in {list, tuple}
         THEN LET items == [i \in 1..Len(data(obj)) |-> JsonDumps(data(obj)[i])]
              IN IF \E i \in 1..Len(items) : ~items[i].ok THEN NotParsed
                 ELSE Parsed(ListV([i \in 1..Len(items) |-> items[i].v]))
    ELSE IF type(obj) = dict
         THEN LET keys == [i \in 1..Len(data(obj)) |-> JsonKey(data(obj)[i][1])]
                  vals == [i \in 1..Len(data(obj)) |-> JsonDumps(data(obj)[i][2])]
              IN IF \E i \in 1..Len(data(obj)) : ~keys[i].ok \/ ~vals[i].ok THEN NotParsed
                 ELSE Parsed(DictV([i \in 1..Len(data(obj)) |-> <<keys[i].v, vals[i].v>>]))
    ELSE NotParsed

\* json.loads(text, parse_float=Decimal) of a valid text
RECURSIVE JsonLoadsTree(_)
JsonLoadsTree(text) ==
    IF type(text) = RealT THEN DecimalV(data(text).n, data(text).x)
    ELSE IF type(text) = list THEN ListV([i \in 1..Len(data(text)) |-> JsonLoadsTree(data(text)[i])])
    ELSE IF type(text) = dict
         THEN DictV(DictOfItems(Keys(data(text)),
                                [i \in 1..Len(data(text)) |-> JsonLoadsTree(data(text)[i][2])]))
    ELSE text

\* json.loads(text, parse_float=Decimal): JSONDecodeError (not ok) for an invalid text
JsonLoads(text) ==
    IF text \in {InvalidText, PartialText} THEN NotParsed ELSE Parsed(JsonLoadsTree(text))

(***************************************************************************)
(* typ.json: loads, dumps, load, dump.  decoders and encoders are the      *)
(* caller's lists; builtin is the module's json_decoders / json_encoders.   *)
(***************************************************************************)
\* left += right, the list left extended in place, in the place of left + right
ListAddInPlace(left, right) == [result |-> left \o right, left |-> left \o right, right |-> right]

\* left + right of two lists: the new list, and the two operands as they are afterwards
ListAdd(left, right) == [result |-> left \o right, left |-> left, right |-> right]

loads(typ, json_str, decoders, builtin, setorder) ==
    LET json_value == JsonLoads(json_str)
    IN IF ~json_value.ok THEN Raise("Exception", "JSONDecodeError", <<>>)
       ELSE decode(typ, json_value.v, "None", ListAdd(decoders, builtin).result, setorder)

\* a dumps whose chain has the module's rules before the caller's
dumps_builtin_first(value, typ, encoders, builtin, setorder) ==
    LET json_value == encode(value, typ, "None", builtin \o encoders, setorder)
        text == JsonDumps(json_value.v)
    IN IF json_value.st # "ok" THEN json_value
       ELSE IF ~text.ok THEN Raise("Exception", "TypeError", json_value.log)
       ELSE OkR(text.v, json_value.log)

dumps(value, typ, encoders, builtin, setorder) ==
    LET json_value == encode(value, typ, "None", ListAdd(encoders, builtin).result, setorder)
        text == JsonDumps(json_value.v)
    IN IF json_value.st # "ok" THEN json_value
       ELSE IF ~text.ok THEN Raise("Exception", "TypeError", json_value.log)
       ELSE OkR(text.v, json_value.log)

\* json.load(fp, parse_float=Decimal) reads the whole file: one document or an error
load(file, typ, decoders, builtin, setorder) ==
    IF Len(file) # 1 THEN Raise("Exception", "JSONDecodeError", <<>>)
    ELSE loads(typ, file[1], decoders, builtin, setorder)

\* dump returns what json.dump returns: None
dump(value, typ, encoders, builtin, setorder) ==
    LET r == dumps(value, typ, encoders, builtin, setorder)
    IN IF r.st = "ok" THEN OkR(NoneV, r.log) ELSE r

\* what json.dump(json_value, fp) leaves in the file: the text, or its beginning when the
\* TypeError comes after the opening bracket of an array or object
DumpWrites(value, typ, encoders, builtin, setorder) ==
    LET json_value == encode(value, typ, "None", ListAdd(encoders, builtin).result, setorder)
        text == JsonDumps(json_value.v)
    IN IF json_value.st # "ok" THEN <<>>
       ELSE IF text.ok THEN <<text.v>>
       ELSE IF type(json_value.v) \in {list, tuple, dict} THEN <<PartialText>>
       ELSE <<>>

(***************************************************************************)
(* The inputs of the model: the types, the Python values and the JSON      *)
(* texts a caller passes.                                                  *)
(***************************************************************************)
SeqsUpTo(S, n) == UNION {[1..m -> S] : m \in 0..n}

\* the types of a record's one field
FieldTypes == {IntT, StrT, DateT, NoneType, AnyT, FloatT, ListOf(IntT), Color, A, TheClass}

Types ==
    {IntT, FloatT, StrT, BoolT, NoneType, DecimalT, char, DateT, DatetimeT, TimeT, UuidT,
     AnyT, list, dict, tuple, set,
     ListOf(IntT), ListOf(DateT), DictOf(StrT, DateT), DictOf(IntT, DateT),
     TupleOf(<<StrT, IntT>>), SetOf(DateT), OptionalOf(IntT), UnionOf(<<StrT, IntT>>),
     UnionOf(<<IntT, BoolT>>), UnionOf(<<DateT, StrT>>), UnionOf(<<A, DictOf(StrT, IntT)>>),
     OptionalOf(A), Mixed, UnionOf(<<IntT, FloatT>>), UnionOf(<<FloatT, IntT>>),
     TheClass, OneOptionalField, StrangeCaseClass, Color, Shape, Date, A}
    \cup {OneField(t) : t \in FieldTypes}
    \cup {OneField(OptionalOf(t)) : t \in FieldTypes \ {NoneType}}

UtcSeconds == [d |-> <<2020, 1, 1>>, t |-> <<17, 45, 55>>, us |-> 0, tz |-> "utc"]
UtcFraction == [d |-> <<2020, 1, 1>>, t |-> <<14, 43, 53>>, us |-> 123456, tz |-> "utc"]
Naive == [d |-> <<2020, 1, 1>>, t |-> <<17, 45, 55>>, us |-> 0, tz |-> "naive"]

Scalars ==
    {IntV(3), IntV(1), IntV(123), BoolV(TRUE), NoneV, CharV("x"),
     FloatV(123), FloatV(150), DecimalV(123, 0), DecimalV(123, 1), DecimalV(150, 0),
     DateV(2020, 1, 2), V(DatetimeT, UtcSeconds), V(DatetimeT, UtcFraction), V(DatetimeT, Naive),
     TimeV(<<17, 45, 55>>, 0), TimeV(<<17, 45, 55>>, 123456),
     UuidV("bd65600d-8669-4903-8a14-af88203add38"),
     EnumV(Color, "BLUE"), EnumV(Shape, "RECTANGLE"), EnumV(Date, "NINE_ELEVEN"),
     EnumV(Mixed, "DAY"), EnumV(Mixed, "NAME"),
     MemberV("A", "Number", IntV(3)), MemberV("A", "Date", DateV(2020, 8, 1)),
     MemberV("A", "Unknown", NoneV), MemberV("A", "Number", BoolV(TRUE))}
    \cup {StrV(s) : s \in {"bla", "3", "x", "b", "w", "wrong", "2020-01-02", "2020-1-2",
                           "2001-09-11", "17:45:55", DatetimeIsoformat(UtcSeconds),
                           DatetimeIsoformat(UtcFraction), DatetimeIsoformat(Naive),
                           "bd65600d-8669-4903-8a14-af88203add38",
                           "BD65600D-8669-4903-8A14-AF88203ADD38"}}

Objects ==
    {ObjV(TheClass, <<StrV("bla"), IntV(123)>>), ObjV(TheClass, <<StrV("bla"), StrV("wrong")>>),
     ObjV(OneOptionalField, <<NoneV>>), ObjV(OneOptionalField, <<StrV("bla")>>),
     ObjV(StrangeCaseClass, <<StrV("bla"), IntV(123)>>),
     ObjV(OneField(IntT), <<IntV(3)>>), ObjV(OneField(StrT), <<StrV("bla")>>),
     ObjV(OneField(DateT), <<DateV(2020, 1, 2)>>), ObjV(OneField(NoneType), <<NoneV>>),
     ObjV(OneField(AnyT), <<IntV(3)>>), ObjV(OneField(AnyT), <<NoneV>>),
     ObjV(OneField(FloatT), <<FloatV(150)>>), ObjV(OneField(ListOf(IntT)), <<ListV(<<IntV(3)>>)>>),
     ObjV(OneField(Color), <<EnumV(Color, "BLUE")>>),
     ObjV(OneField(A), <<MemberV("A", "Number", IntV(3))>>),
     ObjV(OneField(TheClass), <<ObjV(TheClass, <<StrV("bla"), IntV(123)>>)>>),
     ObjV(OneField(OptionalOf(IntT)), <<IntV(3)>>), ObjV(OneField(OptionalOf(IntT)), <<NoneV>>),
     ObjV(OneField(OptionalOf(DateT)), <<NoneV>>)}

ListItems == {IntV(3), StrV("bla"), DateV(2020, 1, 2), StrV("2020-01-02")}
SetItemValues == {DateV(2020, 1, 2), DateV(2020, 1, 1), IntV(3)}
DictKeys == {StrV("key"), StrV("the_field")}
DictValues == {DateV(2020, 1, 2), StrV("2020-01-02"), IntV(3), NoneV}

\* the lists of test_int_custom
CustomLists == {ListV(<<IntV(3), IntV(4), IntV(5)>>), ListV(<<StrV("3"), StrV("4"), StrV("5")>>)}

Lists == {ListV(s) : s \in SeqsUpTo(ListItems, MaxLen)} \cup CustomLists
Tuples == {TupleV(s) : s \in SeqsUpTo(ListItems, MaxLen)}
Sets == {SetV(S) : S \in {X \in SUBSET SetItemValues : Cardinality(X) <= MaxLen}}
GeneratedDicts ==
    {DictV(s) : s \in {x \in SeqsUpTo(DictKeys \X DictValues, MaxLen) :
                          \A i, j \in 1..Len(x) : i # j => x[i][1] # x[j][1]}}

\* the objects of the tests, and their neighbours
Dicts ==
    GeneratedDicts \cup
    {DictV(<< <<StrV("string_field"), StrV("bla")>>, <<StrV("int_field"), IntV(123)>> >>),
     DictV(<< <<StrV("int_field"), IntV(123)>>, <<StrV("string_field"), StrV("bla")>> >>),
     DictV(<< <<StrV("string_field"), StrV("bla")>>, <<StrV("int_field"), StrV("wrong")>> >>),
     DictV(<< <<StrV("string_field"), StrV("bla")>> >>),
     DictV(<< <<StrV("StringField"), StrV("bla")>>, <<StrV("IntField"), IntV(123)>> >>),
     DictV(<< <<StrV("number"), IntV(3)>> >>), DictV(<< <<StrV("Number"), IntV(3)>> >>),
     DictV(<< <<StrV("Number"), StrV("3")>> >>),
     DictV(<< <<StrV("Date"), StrV("2020-01-02")>> >>), DictV(<< <<StrV("Date"), StrV("bla")>> >>),
     DictV(<< <<StrV("Unknown"), NoneV>> >>), DictV(<< <<StrV("unknown"), NoneV>> >>),
     DictV(<< <<StrV("Unknown"), IntV(3)>> >>),
     DictV(<< <<StrV("garbage"), IntV(3)>> >>),
     DictV(<< <<StrV("garbage"), IntV(3)>>, <<StrV("Number"), IntV(3)>> >>),
     DictV(<< <<IntV(2), DateV(2020, 1, 2)>> >>), DictV(<< <<IntV(2), StrV("2020-01-02")>> >>),
     DictV(<< <<DateV(2020, 1, 2), IntV(3)>> >>),
     DictV(<< <<StrV("the_field"), StrV("bla")>> >>),
     DictV(<< <<StrV("the_field"), StrV("b")>> >>),
     DictV(<< <<StrV("the_field"), ListV(<<IntV(3)>>)>> >>),
     DictV(<< <<StrV("the_field"), DictV(<< <<StrV("Number"), IntV(3)>> >>)>> >>),
     DictV(<< <<StrV("the_field"),
                DictV(<< <<StrV("string_field"), StrV("bla")>>, <<StrV("int_field"), IntV(123)>> >>)>> >>),
     DictV(<< <<StrV("the_field"), FloatV(150)>> >>)}

Values == Scalars \cup Objects \cup Lists \cup Tuples \cup Sets \cup Dicts

\* the JSON texts a caller passes: what json.dumps gives for the values, real literals, garbage
Texts ==
    {JsonDumps(v).v : v \in {x \in Values : JsonDumps(x).ok}}
        \cup {RealV(123, 0), RealV(123, 1), RealV(150, 0), InvalidText}

Cases == {"None", "snakecase"}
SetOrders == {"sorted", "reversed"}

\* the rule lists a caller passes to encode: none, the module's, its own rule before the module's
EncoderLists == {<<>>, EncodingJsonEncoders, <<"encode_int_custom">> \o EncodingJsonEncoders}
DecoderLists == {<<>>, EncodingJsonDecoders, <<"decode_int_custom">> \o EncodingJsonDecoders}

\* where the extra list of a call of dumps, dump, loads, load comes from: the parameter's
\* default [], one object for all the calls of the function, or a list the caller holds
ListSources == {"default", "extra"}

\* the list object a call passes
Passed(source, op, kind) == IF source = "default" THEN defaults[op] ELSE extras[kind]

\* the default lists and the caller's lists once the call has left the object it passed as
\* the list left
DefaultsAfter(source, op, left) ==
    IF source = "default" THEN [defaults EXCEPT ![op] = left] ELSE defaults
ExtrasAfter(source, kind, left) ==
    IF source = "extra" THEN [extras EXCEPT ![kind] = left] ELSE extras

(***************************************************************************)
(* Pattern matching on tagged unions (union.py).  A case mapping is a dict *)
(* from keys to handlers; a key is a member creator (A.Number), a member   *)
(* (A.Number(3)) or default.  A handler is an opaque function, and calling *)
(* it yields the call it received: the handler and its arguments.          *)
(***************************************************************************)
\* the UnionMemberCreator class union() defines for the union class n
UnionMemberCreatorT(n) == T("UnionMemberCreator", n, <<>>)
\* getattr(union_class, name): the creator of the case name
UnionMemberCreator(n, name) == V(UnionMemberCreatorT(n), name)

function == T("function", "", <<>>)
object == T("object", "", <<>>)
\* union.default: an object() equal to nothing but itself
default == V(object, "default")

\* union._isinstance_member_creator(member)
IsinstanceMemberCreator(member) == type(member).k = "UnionMemberCreator"

\* ismember without the isinstance test of the union class
ismember_any_union(value, member_creator) ==
    data(value).name = data(member_creator)

\* union.ismember(value, member_creator), for a member creator
ismember(value, member_creator) ==
    /\ Isinstance(value, TaggedT(type(member_creator).n))
    /\ data(value).name = data(member_creator)

\* union._match_case(case_key, obj)
MatchCase(case_key, obj) ==
    IF PyEq(default, case_key) THEN TRUE
    ELSE IF IsinstanceMemberCreator(case_key) THEN ismember(obj, case_key)
    ELSE PyEq(case_key, obj)

\* case_lambda(*args): the call the handler receives
CallLambda(case_lambda, args) == OkR(TupleV(<<case_lambda>> \o args), <<>>)

\* union.match(obj, cases)
match(obj, cases) ==
    LET items == data(cases)
        matched == {i \in 1..Len(items) : MatchCase(items[i][1], obj)}
        first == CHOOSE i \in matched : \A j \in matched : i <= j
        case_key == IF matched = {} THEN NoneV ELSE items[first][1]
        case_lambda == IF matched = {} THEN NoneV ELSE items[first][2]
    IN IF case_lambda = NoneV THEN Raise("Exception", "ValueError", <<>>)
       ELSE IF PyEq(case_key, default) THEN CallLambda(case_lambda, <<>>)
       ELSE CallLambda(case_lambda, <<data(obj).value>>)

(***************************************************************************)
(* The state machine: a caller calls one entry point after the other.      *)
(* call is the call being made, res its outcome, fp the documents in the   *)
(* caller's file.  The conversions neither read nor write the file, so     *)
(* they are explored with the file empty.                                  *)
(***************************************************************************)
Call(op, typ, value, case, rules, setorder) ==
    [op |-> op, typ |-> typ, value |-> value, case |-> case, rules |-> rules,
     setorder |-> setorder]

NoCall == Call("none", NoTyp, NoneV, "None", <<>>, "sorted")
NoResult == [st |-> "none", v |-> NoneV, err |-> "", log |-> <<>>]

\* the members matched, of the two unions of the tests
Members ==
    {MemberV("A", "Number", IntV(3)), MemberV("A", "Number", IntV(4)), MemberV("A", "Unknown", NoneV),
     MemberV("B", "Number", IntV(3)), MemberV("B", "Text", StrV("something")),
     MemberV("B", "Unknown", NoneV)}

\* the keys of the case mappings: creators, members and default
CaseKeys ==
    {UnionMemberCreator("A", "Number"), UnionMemberCreator("A", "Unknown"),
     UnionMemberCreator("B", "Number"), UnionMemberCreator("B", "Text"),
     MemberV("A", "Number", IntV(3)), MemberV("B", "Number", IntV(3)),
     MemberV("B", "Text", StrV("something")), default}

\* the handlers of the case mappings
Lambdas == {V(function, "first"), V(function, "second")}

\* the case mappings: dicts of up to MaxLen entries, their keys distinct
CaseMappings ==
    {DictV(items) : items \in
        {s \in UNION {[1..n -> CaseKeys \X Lambdas] : n \in 0..MaxLen} :
            \A i, j \in 1..Len(s) : i # j => ~PyEq(s[i][1], s[j][1])}}

\* the set order is observable only where a set is iterated
OrdersFor(value) == IF type(value) = set /\ Cardinality(data(value)) > 1 THEN SetOrders ELSE {"sorted"}

Init ==
    /\ json_encoders = JsonEncoders
    /\ json_decoders = JsonDecoders
    /\ defaults = [op \in {"dumps", "dump", "loads", "load"} |-> <<>>]
    /\ extras = [kind \in {"encoders", "decoders"} |->
                    IF kind = "encoders" THEN <<"encode_int_custom">> ELSE <<"decode_int_custom">>]
    /\ fp = <<>>
    /\ pc = "idle"
    /\ call = NoCall
    /\ res = NoResult

Encode ==
    /\ pc = "idle" /\ fp = <<>>
    /\ \E value \in Values, typ \in Types \cup {NoTyp}, case \in Cases, encoders \in EncoderLists :
         \E setorder \in OrdersFor(value) :
           /\ call' = Call("encode", typ, value, case, encoders, setorder)
           /\ res' = encode(value, typ, case, encoders, setorder)
    /\ pc' = "done"
    /\ UNCHANGED <<json_encoders, json_decoders, defaults, extras, fp>>

Decode ==
    /\ pc = "idle" /\ fp = <<>>
    /\ \E json_value \in Values, typ \in Types, case \in Cases, decoders \in DecoderLists :
           /\ call' = Call("decode", typ, json_value, case, decoders, "sorted")
           /\ res' = decode(typ, json_value, case, decoders, "sorted")
    /\ pc' = "done"
    /\ UNCHANGED <<json_encoders, json_decoders, defaults, extras, fp>>

Dumps ==
    /\ pc = "idle" /\ fp = <<>>
    /\ \E value \in Values, typ \in Types \cup {NoTyp}, source \in ListSources :
         \E setorder \in OrdersFor(value) :
           LET encoders == Passed(source, "dumps", "encoders")
               lists == ListAdd(encoders, json_encoders)
           IN /\ call' = Call("dumps", typ, value, "None", encoders, setorder)
              /\ res' = dumps(value, typ, encoders, json_encoders, setorder)
              /\ json_encoders' = lists.right
              /\ defaults' = DefaultsAfter(source, "dumps", lists.left)
              /\ extras' = ExtrasAfter(source, "encoders", lists.left)
    /\ pc' = "done"
    /\ UNCHANGED <<json_decoders, fp>>

Loads ==
    /\ pc = "idle" /\ fp = <<>>
    /\ \E json_str \in Texts, typ \in Types, source \in ListSources :
           LET decoders == Passed(source, "loads", "decoders")
               lists == IF JsonLoads(json_str).ok THEN ListAdd(decoders, json_decoders)
                        ELSE [left |-> decoders, right |-> json_decoders]
           IN /\ call' = Call("loads", typ, json_str, "None", decoders, "sorted")
              /\ res' = loads(typ, json_str, decoders, json_decoders, "sorted")
              /\ json_decoders' = lists.right
              /\ defaults' = DefaultsAfter(source, "loads", lists.left)
              /\ extras' = ExtrasAfter(source, "decoders", lists.left)
    /\ pc' = "done"
    /\ UNCHANGED <<json_encoders, fp>>

\* the calls of dump the tests make, and one json.dump cannot write
DumpCalls ==
    {<<ObjV(TheClass, <<StrV("bla"), IntV(123)>>), TheClass>>,
     <<ListV(<<IntV(3), StrV("bla")>>), NoTyp>>,
     <<DictV(<< <<DateV(2020, 1, 2), IntV(3)>> >>), NoTyp>>,
     <<BoolV(TRUE), IntT>>}

Dump ==
    /\ pc = "idle" /\ Len(fp) < MaxDocs
    /\ \E c \in DumpCalls, source \in ListSources :
           LET encoders == Passed(source, "dump", "encoders")
               lists == ListAdd(encoders, json_encoders)
           IN /\ call' = Call("dump", c[2], c[1], "None", encoders, "sorted")
              /\ res' = dump(c[1], c[2], encoders, json_encoders, "sorted")
              /\ fp' = fp \o DumpWrites(c[1], c[2], encoders, json_encoders, "sorted")
              /\ json_encoders' = lists.right
              /\ defaults' = DefaultsAfter(source, "dump", lists.left)
              /\ extras' = ExtrasAfter(source, "encoders", lists.left)
    /\ pc' = "done"
    /\ UNCHANGED json_decoders

Load ==
    /\ pc = "idle"
    /\ \E typ \in {TheClass, list, ListOf(IntT), AnyT}, source \in ListSources :
           LET decoders == Passed(source, "load", "decoders")
               lists == IF Len(fp) = 1 /\ JsonLoads(fp[1]).ok THEN ListAdd(decoders, json_decoders)
                        ELSE [left |-> decoders, right |-> json_decoders]
           IN /\ call' = Call("load", typ, NoneV, "None", decoders, "sorted")
              /\ res' = load(fp, typ, decoders, json_decoders, "sorted")
              /\ json_decoders' = lists.right
              /\ defaults' = DefaultsAfter(source, "load", lists.left)
              /\ extras' = ExtrasAfter(source, "decoders", lists.left)
    /\ pc' = "done"
    /\ UNCHANGED <<json_encoders, fp>>

Match ==
    /\ pc = "idle" /\ fp = <<>>
    /\ \E obj \in Members, cases \in CaseMappings :
           /\ call' = Call("match", NoTyp, TupleV(<<obj, cases>>), "None", <<>>, "sorted")
           /\ res' = match(obj, cases)
    /\ pc' = "done"
    /\ UNCHANGED <<json_encoders, json_decoders, defaults, extras, fp>>

\* open(name, 'w'): the caller's file starts empty again
Open ==
    /\ pc = "idle" /\ fp # <<>>
    /\ fp' = <<>>
    /\ UNCHANGED <<json_encoders, json_decoders, defaults, extras, pc, call, res>>

\* the call returns or raises, and the caller goes on
Return ==
    /\ pc = "done"
    /\ pc' = "idle"
    /\ call' = NoCall
    /\ res' = NoResult
    /\ UNCHANGED <<json_encoders, json_decoders, defaults, extras, fp>>

Next == Encode \/ Decode \/ Dumps \/ Loads \/ Dump \/ Load \/ Match \/ Open \/ Return

Spec == Init /\ [][Next]_vars

(***************************************************************************)
(* The properties.  Each is about the call just made: call holds its       *)
(* arguments, res its outcome.                                             *)
(***************************************************************************)
Done(op) == pc = "done" /\ call.op = op

\* the name a case converter gives: the converter applied, or the name when there is none
Conv(case, name) == IF case = "snakecase" THEN snakecase(name) ELSE name

\* two outcomes are the same: both fail, or both give the same value
Same(r1, r2) == r1.st = r2.st /\ (r1.st = "ok" => r1.v = r2.v)

\* the caller passed the module's chain, alone or after a rule of its own
WithBuiltinEncoders == call.rules \in EncoderLists \ {<<>>}
WithBuiltinDecoders == call.rules \in DecoderLists \ {<<>>}

\* value is a well-formed instance of typ
RECURSIVE WellFormed(_, _)
WellFormed(value, typ) ==
    CASE typ.k = "List" ->
           type(value) = list /\ \A i \in 1..Len(data(value)) : WellFormed(data(value)[i], typ.a[1])
      [] typ.k = "Dict" ->
           /\ type(value) = dict
           /\ \A i \in 1..Len(data(value)) :
                 WellFormed(data(value)[i][1], typ.a[1]) /\ WellFormed(data(value)[i][2], typ.a[2])
      [] typ.k = "Tuple" ->
           /\ type(value) = tuple /\ Len(data(value)) = Len(typ.a)
           /\ \A i \in 1..Len(typ.a) : WellFormed(data(value)[i], typ.a[i])
      [] typ.k = "Set" ->
           type(value) = set /\ \A x \in data(value) : WellFormed(x, typ.a[1])
      [] typ.k = "Union" -> \E i \in 1..Len(typ.a) : WellFormed(value, typ.a[i])
      [] typ.k = "dataclass" ->
           type(value) = typ /\ \A i \in 1..Len(typ.a) : WellFormed(data(value)[i], typ.a[i])
      [] typ.k = "tagged" ->
           /\ type(value) = UnionMemberT(typ.n)
           /\ \E i \in 1..Len(UnionMembers(typ.n)) :
                 LET m == UnionMembers(typ.n)[i]
                 IN /\ m.name = data(value).name
                    /\ IF m.type = NoTyp THEN data(value).value = NoneV
                       ELSE WellFormed(data(value).value, m.type)
      [] typ.k \in {"Any", "None", "list", "dict", "tuple", "set"} -> FALSE
      [] OTHER -> type(value) = typ

\* C1: round trip.  For every supported type T and every well-formed value v of T,
\* decode(T, encode(v, T)) with the built-in chains succeeds and gives a value equal to v.
C1_RoundTrip ==
    (/\ Done("encode") /\ call.rules = EncodingJsonEncoders
     /\ WellFormed(call.value, call.typ))
    => /\ res.st = "ok"
       /\ LET back == decode(call.typ, res.v, call.case, EncodingJsonDecoders, call.setorder)
          IN back.st = "ok" /\ PyEq(back.v, call.value)

\* the alternatives of the union of the call, each decoded alone
AlternativeAlone(i) == decode(call.typ.a[i], call.value, call.case, call.rules, call.setorder)

\* C2: union decode is first success in declared order.  decode(Union[T1..Tn], v) gives
\* what decode(Ti, v) gives for the smallest i for which decoding v against Ti alone
\* succeeds, and fails only when v fails against every alternative.
C2_UnionFirstSuccess ==
    (Done("decode") /\ call.typ.k = "Union" /\ WithBuiltinDecoders)
    => LET succeed == {i \in 1..Len(call.typ.a) : AlternativeAlone(i).st = "ok"}
       IN IF succeed = {} THEN res.st = "JsonError"
          ELSE LET first == CHOOSE i \in succeed : \A j \in succeed : i <= j
               IN res.st = "ok" /\ res.v = AlternativeAlone(first).v

EncodePrimitives == {IntT, FloatT, StrT, BoolT, NoneType}
DecodePrimitives == {IntT, StrT, BoolT, NoneType, DecimalT}

\* C3: type safety of primitives.  With the built-in chain, encode(v, P) for P in
\* {int, float, str, bool, None} and decode(P, j) for P in {int, str, bool, None, Decimal}
\* fail unless the runtime type of the value is exactly P, and give the value itself,
\* uncoerced, when it is.
C3_PrimitiveTypeSafety ==
    /\ (Done("encode") /\ call.typ \in EncodePrimitives /\ call.rules = EncodingJsonEncoders)
       => IF type(call.value) = call.typ THEN res.st = "ok" /\ res.v = call.value
          ELSE res.st = "JsonError"
    /\ (Done("decode") /\ call.typ \in DecodePrimitives /\ call.rules = EncodingJsonDecoders)
       => IF type(call.value) = call.typ THEN res.st = "ok" /\ res.v = call.value
          ELSE res.st = "JsonError"
    /\ (Done("dumps") /\ call.typ \in EncodePrimitives /\ call.rules = <<>> /\ res.st = "ok")
       => type(call.value) = call.typ
    /\ (Done("loads") /\ call.typ \in DecodePrimitives /\ call.rules = <<>> /\ res.st = "ok")
       => type(res.v) = call.typ /\ res.v = JsonLoads(call.value).v

\* True encoded as int with the built-in chain: the call fails
C3_Witness ==
    /\ Done("encode") /\ call.typ = IntT /\ call.value = BoolV(TRUE)
    /\ call.rules = EncodingJsonEncoders /\ res.st = "JsonError"

\* the engine calls of a run: <<rule, typ>> for every rule invoked on every type
RECURSIVE Invoked(_)
Invoked(log) ==
    UNION {{<<log[i].rule, log[i].typ>>} \cup Invoked(log[i].sub) : i \in 1..Len(log)}

\* C4: extension override.  dumps, dump, loads and load run the engine with the caller's
\* rules followed by the module's, so the caller's int rule is the one applied to every
\* int, top level or nested, and the built-in rule for int is never reached.
C4_ExtensionOverride ==
    /\ (pc = "done" /\ call.op \in {"dumps", "dump"})
       => /\ res.log = encode(call.value, call.typ, "None", call.rules \o json_encoders,
                              call.setorder).log
          /\ call.rules = <<"encode_int_custom">>
             => \A e \in Invoked(res.log) : e[2] = IntT => e[1] = "encode_int_custom"
    /\ Done("loads")
       => /\ JsonLoads(call.value).ok
             => res.log = decode(call.typ, JsonLoads(call.value).v, "None",
                                 call.rules \o json_decoders, "sorted").log
          /\ call.rules = <<"decode_int_custom">>
             => \A e \in Invoked(res.log) : e[2] = IntT => e[1] = "decode_int_custom"
    /\ Done("load")
       => /\ (Len(fp) = 1 /\ JsonLoads(fp[1]).ok)
             => res.log = decode(call.typ, JsonLoads(fp[1]).v, "None",
                                 call.rules \o json_decoders, "sorted").log
          /\ call.rules = <<"decode_int_custom">>
             => \A e \in Invoked(res.log) : e[2] = IntT => e[1] = "decode_int_custom"

\* dumps([3, 4, 5], encoders=[encode_int_custom]) gives ["3", "4", "5"], each int by the
\* caller's rule
C4_Witness ==
    /\ Done("dumps") /\ call.value = ListV(<<IntV(3), IntV(4), IntV(5)>>) /\ call.typ = NoTyp
    /\ call.rules = <<"encode_int_custom">>
    /\ res.st = "ok" /\ res.v = ListV(<<StrV("3"), StrV("4"), StrV("5")>>)
    /\ <<"encode_int_custom", IntT>> \in Invoked(res.log)

\* C5: the entry points encode and decode, called with no extra rules, apply the built-in
\* chain: encode(3, int) gives 3, decode(Tuple[str, int], ["bla", 3]) gives ("bla", 3).
C5_EntryPointsApplyBuiltins ==
    /\ (Done("encode") /\ call.rules = <<>>)
       => Same(res, encode(call.value, call.typ, call.case, EncodingJsonEncoders, call.setorder))
    /\ (Done("decode") /\ call.rules = <<>>)
       => Same(res, decode(call.typ, call.value, call.case, EncodingJsonDecoders, call.setorder))

\* the declared cases of the tagged union of the call whose converted name is the one key
\* of the object decoded
MatchingCases ==
    LET j == call.value
        members == UnionMembers(call.typ.n)
    IN {i \in 1..Len(members) :
          /\ type(j) = dict /\ Len(data(j)) = 1
          /\ type(data(j)[1][1]) \in {StrT, char}
          /\ data(data(j)[1][1]) = Conv(call.case, members[i].name)}

\* C6: tagged-union decode exactness.  decode(U, j) succeeds only if j is an object with
\* exactly one key, the converted name of a declared case; the result is then that case
\* built from the payload decoded against the case's type, or without payload when the
\* case declares none.  Any other j fails with the codec's error.
C6_TaggedUnionDecode ==
    (Done("decode") /\ call.typ.k = "tagged")
    => /\ res.st \in {"ok", "JsonError"}
       /\ MatchingCases = {} => res.st = "JsonError"
       /\ res.st = "ok"
          => /\ MatchingCases # {}
             /\ LET i == CHOOSE i \in MatchingCases : \A k \in MatchingCases : i <= k
                    member == UnionMembers(call.typ.n)[i]
                    payload == decode(member.type, data(call.value)[1][2], call.case,
                                      call.rules, call.setorder)
                IN IF member.type = NoTyp
                   THEN res.v = MemberV(call.typ.n, member.name, NoneV)
                   ELSE payload.st = "ok" /\ res.v = MemberV(call.typ.n, member.name, payload.v)

\* {"number": 3} decoded against A with snake case: the case Number carrying 3
C6_Witness ==
    /\ Done("decode") /\ call.typ = A /\ call.case = "snakecase"
    /\ call.value = DictV(<< <<StrV("number"), IntV(3)>> >>)
    /\ res.st = "ok" /\ res.v = MemberV("A", "Number", IntV(3))

\* C7: tagged-union encode.  A case instance encoded against its tagged union gives an
\* object with one key, the converted case name, holding the payload encoded against the
\* case's declared type, null when the case has no payload; a value that is no case
\* instance fails.
C7_TaggedUnionEncode ==
    (Done("encode") /\ call.typ.k = "tagged" /\ WithBuiltinEncoders)
    => IF type(call.value).k # "UnionMember" THEN res.st = "JsonError"
       ELSE LET name == data(call.value).name
                declared == MemberType(type(call.value).n, name)
                payload == encode(data(call.value).value, declared, call.case, call.rules,
                                  call.setorder)
            IN IF payload.st # "ok" THEN res.st = "JsonError"
               ELSE /\ res.st = "ok"
                    /\ res.v = DictV(<< <<StrV(Conv(call.case, name)), payload.v>> >>)
                    /\ declared = NoTyp => payload.v = NoneV

\* A.Date(date(2020, 8, 1)) encoded with snake case: {"date": "2020-08-01"}
C7_Witness ==
    /\ Done("encode") /\ call.typ = A /\ call.case = "snakecase"
    /\ call.value = MemberV("A", "Date", DateV(2020, 8, 1))
    /\ res.st = "ok" /\ res.v = DictV(<< <<StrV("date"), StrV("2020-08-01")>> >>)

\* Optional[T]: a union with None among its alternatives
IsOptional(t) == t.k = "Union" /\ \E i \in 1..Len(t.a) : t.a[i] = NoneType

\* the object of the call has no entry under the converted name of field i
Lacks(i) ==
    /\ type(call.value) = dict
    /\ \A k \in 1..Len(data(call.value)) :
          data(call.value)[k][1] # StrV(Conv(call.case, FieldNames(call.typ.n)[i]))

\* the object of the call with null under the converted name of field i
WithNull(i) ==
    DictV(Append(data(call.value), <<StrV(Conv(call.case, FieldNames(call.typ.n)[i])), NoneV>>))

\* every field but i decodes from the object of the call
OthersDecode(i) ==
    \A k \in 1..Len(call.typ.a) :
        k # i => decode(call.typ.a[k],
                        DictGet(data(call.value), StrV(Conv(call.case, FieldNames(call.typ.n)[k]))),
                        call.case, call.rules, call.setorder).st = "ok"

TakesNull(t) == t \in {NoneType, AnyT}

FieldAlone(i) == encode(data(call.value)[i], call.typ.a[i], call.case, call.rules, call.setorder)

\* C10: record encode.  A record instance encoded against its type gives an object with
\* one entry per declared field, in declaration order, under the converted field name,
\* holding the field's value encoded against the field's type; the call fails when the
\* value's type is not the record type or a field fails to encode.
C10_RecordEncode ==
    (Done("encode") /\ call.typ.k = "dataclass" /\ WithBuiltinEncoders)
    => IF type(call.value) # call.typ THEN res.st = "JsonError"
       ELSE IF \E i \in 1..Len(call.typ.a) : FieldAlone(i).st # "ok" THEN res.st = "JsonError"
       ELSE /\ res.st = "ok"
            /\ res.v = DictV([i \in 1..Len(call.typ.a) |->
                                <<StrV(Conv(call.case, FieldNames(call.typ.n)[i])),
                                  FieldAlone(i).v>>])

\* StrangeCaseClass('bla', 123) encoded with snake case
C10_Witness ==
    /\ Done("encode") /\ call.typ = StrangeCaseClass /\ call.case = "snakecase"
    /\ call.value = ObjV(StrangeCaseClass, <<StrV("bla"), IntV(123)>>)
    /\ res.st = "ok"
    /\ res.v = DictV(<< <<StrV("string_field"), StrV("bla")>>, <<StrV("int_field"), IntV(123)>> >>)

\* the converted names of the declared fields of the record type of the call
DeclaredKeys == {StrV(Conv(call.case, FieldNames(call.typ.n)[i])) : i \in 1..Len(call.typ.a)}

\* the object of the call without the keys that are no declared field
WithoutExtraKeys ==
    LET declared(entry) == entry[1] \in DeclaredKeys
    IN DictV(SelectSeq(data(call.value), declared))

\* C11: extra keys are ignored on record decode.  An object with keys that are not the
\* converted name of a declared field decodes as the object without them does: to the same
\* record when that one decodes.
C11_ExtraKeysIgnored ==
    (Done("decode") /\ call.typ.k = "dataclass" /\ type(call.value) = dict)
    => Same(res, decode(call.typ, WithoutExtraKeys, call.case, call.rules, call.setorder))

\* {"key": "2020-01-02", "the_field": 3} decoded as a record of one int field the_field
C11_Witness ==
    /\ Done("decode") /\ call.typ = OneField(IntT) /\ WithBuiltinDecoders
    /\ call.value = DictV(<< <<StrV("key"), StrV("2020-01-02")>>, <<StrV("the_field"), IntV(3)>> >>)
    /\ WithoutExtraKeys = DictV(<< <<StrV("the_field"), IntV(3)>> >>)
    /\ res.st = "ok" /\ res.v = ObjV(OneField(IntT), <<IntV(3)>>)

\* the alternatives of the union of the call, the value encoded against each alone
EncodedAlone(i) == encode(call.value, call.typ.a[i], call.case, call.rules, call.setorder)

\* C12: union encode is first success in declared order.  encode(v, Union[T1..Tn]) gives
\* what encode(v, Ti) gives for the smallest i for which encoding v against Ti alone
\* succeeds, and fails only when v encodes against no alternative; so encode(None,
\* Optional[T]) is null.
C12_UnionEncodeFirstSuccess ==
    (Done("encode") /\ call.typ.k = "Union" /\ WithBuiltinEncoders)
    => LET succeed == {i \in 1..Len(call.typ.a) : EncodedAlone(i).st = "ok"}
       IN IF succeed = {} THEN res.st = "JsonError"
          ELSE LET first == CHOOSE i \in succeed : \A j \in succeed : i <= j
               IN res.st = "ok" /\ res.v = EncodedAlone(first).v

\* the members of the enumeration of the call that the value decodes to: decoding it
\* against the runtime type of the member's value succeeds and gives that value
MatchingMembers ==
    LET members == EnumMembers(call.typ.n)
    IN {i \in 1..Len(members) :
          LET d == decode(type(members[i].value), call.value, call.case, call.rules,
                          call.setorder)
          IN d.st = "ok" /\ PyEq(members[i].value, d.v)}

\* C13: enumeration decode gives the first member, in declaration order, whose value the
\* interchange value decodes to; a member whose attempt fails is passed over, and the
\* decode fails with the codec's error when no member matches.  Encoding a member gives
\* the encoding of its value by the value's runtime type.
C13_EnumDecode ==
    /\ (Done("decode") /\ call.typ.k = "enum" /\ WithBuiltinDecoders)
       => IF MatchingMembers = {} THEN res.st = "JsonError"
          ELSE LET first == CHOOSE i \in MatchingMembers : \A j \in MatchingMembers : i <= j
               IN res.st = "ok" /\ res.v = EnumV(call.typ, EnumMembers(call.typ.n)[first].name)
    /\ (Done("encode") /\ call.typ.k = "enum" /\ type(call.value) = call.typ
        /\ WithBuiltinEncoders)
       => LET underlying == EnumValue(call.typ.n, data(call.value))
          IN Same(res, encode(underlying, type(underlying), call.case, call.rules,
                              call.setorder))

\* "bla" decoded against Mixed: DAY's attempt fails in strptime, NAME matches
C13_Witness ==
    /\ Done("decode") /\ call.typ = Mixed /\ call.value = StrV("bla") /\ WithBuiltinDecoders
    /\ decode(DateT, call.value, call.case, call.rules, call.setorder).st = "JsonError"
    /\ res.st = "ok" /\ res.v = EnumV(Mixed, "NAME")

\* C14: reverse round trip.  For every supported type T other than date-time and decimal
\* and every interchange value j that decode(T, j) accepts, encode(decode(T, j), T) with
\* the built-in chains is equal to j.
C14_ReverseRoundTrip ==
    (/\ Done("decode") /\ call.rules = EncodingJsonDecoders
     /\ call.typ \notin {DatetimeT, DecimalT} /\ res.st = "ok")
    => LET back == encode(res.v, call.typ, call.case, EncodingJsonEncoders, call.setorder)
       IN back.st = "ok" /\ PyEq(back.v, call.value)

\* C15: typed failures at the top level.  Every call of encode, decode, dumps or loads
\* returns a value or raises JsonError: whatever is raised inside reaches the caller as
\* JsonError.
C15_TypedFailures ==
    (pc = "done" /\ call.op \in {"encode", "decode", "dumps", "loads"})
    => res.st \in {"ok", "JsonError"}

\* an element of the container of the call, encoded with the type omitted
ElementAlone(item) == encode(item, NoTyp, call.case, call.rules, call.setorder)

\* the elements of the container of the call, in the order the rule iterates them
Elements ==
    IF type(call.value) \in {list, tuple} THEN data(call.value)
    ELSE IF type(call.value) = set
         THEN SetItems(Engine(call.rules, call.case, call.setorder), data(call.value))
    ELSE Vals(data(call.value))

\* C16: untyped encode.  encode(v) is encode(v, type(v)); a bare list, tuple, set or dict
\* encodes each element by the element's own runtime type, lists, tuples and sets to a
\* list, a dict to a dict with its keys unchanged, and fails when an element fails.
C16_UntypedEncode ==
    (Done("encode") /\ call.typ = NoTyp /\ WithBuiltinEncoders)
    => /\ Same(res, encode(call.value, type(call.value), call.case, call.rules, call.setorder))
       /\ type(call.value) \in {list, tuple, set, dict}
          => IF \E i \in 1..Len(Elements) : ElementAlone(Elements[i]).st # "ok"
             THEN res.st = "JsonError"
             ELSE /\ res.st = "ok"
                  /\ type(call.value) \in {list, tuple, set}
                     => res.v = ListV([i \in 1..Len(Elements) |-> ElementAlone(Elements[i]).v])
                  /\ type(call.value) = dict
                     => res.v = DictV([i \in 1..Len(Elements) |->
                                         <<data(call.value)[i][1], ElementAlone(Elements[i]).v>>])

\* the tuple (date(2020, 1, 2), 3) encoded with the type omitted: the list ["2020-01-02", 3]
C16_Witness ==
    /\ Done("encode") /\ call.typ = NoTyp /\ WithBuiltinEncoders
    /\ call.value = TupleV(<<DateV(2020, 1, 2), IntV(3)>>)
    /\ res.st = "ok" /\ res.v = ListV(<<StrV("2020-01-02"), IntV(3)>>)
    /\ call.rules = EncodingJsonEncoders

\* a value of the dict of the call, converted alone against the declared value type
DictValueAlone(i) ==
    IF call.op = "encode"
    THEN encode(data(call.value)[i][2], call.typ.a[2], call.case, call.rules, call.setorder)
    ELSE decode(call.typ.a[2], data(call.value)[i][2], call.case, call.rules, call.setorder)

\* C17: generic dict supports string keys only.  Encoding or decoding against Dict[K, V]
\* with K other than str fails for every value, the empty dict too; against Dict[str, V]
\* the result has the input's keys, untouched by the case converter, each value converted
\* against V, and the call fails when a value fails or the input is no dict.
C17_GenericDict ==
    (pc = "done" /\ call.op \in {"encode", "decode"} /\ call.typ.k = "Dict"
     /\ call.rules \in (EncoderLists \cup DecoderLists) \ {<<>>})
    => IF call.typ.a[1] # StrT \/ type(call.value) # dict THEN res.st = "JsonError"
       ELSE IF \E i \in 1..Len(data(call.value)) : DictValueAlone(i).st # "ok"
            THEN res.st = "JsonError"
       ELSE /\ res.st = "ok"
            /\ res.v = DictV([i \in 1..Len(data(call.value)) |->
                                <<data(call.value)[i][1], DictValueAlone(i).v>>])

\* {"Date": "2020-01-02"} decoded against Dict[str, date] with snake case keeps the key Date
C17_Witness ==
    /\ Done("decode") /\ call.typ = DictOf(StrT, DateT) /\ call.case = "snakecase"
    /\ call.value = DictV(<< <<StrV("Date"), StrV("2020-01-02")>> >>)
    /\ res.st = "ok" /\ res.v = DictV(<< <<StrV("Date"), DateV(2020, 1, 2)>> >>)

\* the object matched and the entries of the case mapping of the call
MatchedObj == data(call.value)[1]
MatchEntries == data(data(call.value)[2])

\* a creator key and the instances of that case of that union
CreatorKeyMatches(key, obj) ==
    /\ type(key).k = "UnionMemberCreator"
    /\ type(obj) = UnionMemberT(type(key).n)
    /\ data(obj).name = data(key)

\* a member key with the case name and the payload of obj
MemberKeyMatches(key, obj) ==
    /\ type(key).k = "UnionMember"
    /\ data(key).name = data(obj).name
    /\ PyEq(data(key).value, data(obj).value)

\* match called the handler of the first of the entries, with obj's payload or, for
\* default, with nothing, and raised ValueError when there is no such entry
FirstHandlerCalled(entries) ==
    IF entries = {} THEN res.st = "Exception" /\ res.err = "ValueError"
    ELSE LET i == CHOOSE i \in entries : \A j \in entries : i <= j
         IN /\ res.st = "ok"
            /\ res.v = TupleV(<<MatchEntries[i][2]>> \o
                              (IF MatchEntries[i][1] = default THEN <<>>
                               ELSE <<data(MatchedObj).value>>))

\* C18 as stated: match(obj, cases) calls the handler of the first entry, in the mapping's
\* order, whose key matches obj: a creator key matches the instances of that case of that
\* union, a member key matches by equality of case name and payload, default matches
\* anything; the handler receives obj's payload (nothing for default), and match raises
\* ValueError when no key matches.
C18_MatchByNameAndPayload ==
    Done("match")
    => FirstHandlerCalled({i \in 1..Len(MatchEntries) :
            \/ MatchEntries[i][1] = default
            \/ CreatorKeyMatches(MatchEntries[i][1], MatchedObj)
            \/ MemberKeyMatches(MatchEntries[i][1], MatchedObj)})

\* C18 amended: as stated, but a member key matches only an obj of the same union with
\* the same case name and an equal payload.
C18_Match ==
    Done("match")
    => FirstHandlerCalled({i \in 1..Len(MatchEntries) :
            \/ MatchEntries[i][1] = default
            \/ CreatorKeyMatches(MatchEntries[i][1], MatchedObj)
            \/ /\ MemberKeyMatches(MatchEntries[i][1], MatchedObj)
               /\ type(MatchEntries[i][1]) = type(MatchedObj)})

\* A.Number(3) matched with {B.Number(3): first, A.Number: second} calls second with 3
C18_Witness ==
    /\ Done("match")
    /\ MatchedObj = MemberV("A", "Number", IntV(3))
    /\ MatchEntries = << <<MemberV("B", "Number", IntV(3)), V(function, "first")>>,
                         <<UnionMemberCreator("A", "Number"), V(function, "second")>> >>
    /\ res.st = "ok" /\ res.v = TupleV(<<V(function, "second"), IntV(3)>>)

\* the type the engine dispatches the call on
DispatchedTyp == IF call.op = "encode" /\ call.typ = NoTyp THEN type(call.value) ELSE call.typ

\* rule i of the chain of the call, invoked alone on the type and the value of the call
RuleAlone(i) ==
    IF call.op = "encode"
    THEN ApplyEncoder(call.rules[i], Engine(call.rules, call.case, call.setorder),
                      DispatchedTyp, call.value)
    ELSE ApplyDecoder(call.rules[i], Engine(call.rules, call.case, call.setorder),
                      DispatchedTyp, call.value)

\* the rules of the chain of the call that do not signal not-applicable
ApplicableRules == {i \in 1..Len(call.rules) : RuleAlone(i).st # "Unsupported"}

\* C19: the engine returns the outcome of the first rule of the chain, in list order, that
\* does not signal not-applicable for the type, and invokes no rule after it; when every
\* rule signals not-applicable, the empty chain included, it fails with 'Unsupported type'
\* after every rule has been tried once.
C19_EngineDispatch ==
    (pc = "done" /\ call.op \in {"encode", "decode"})
    => /\ \A i \in 1..Len(res.log) :
            /\ res.log[i].rule = call.rules[i] /\ res.log[i].typ = DispatchedTyp
            /\ res.log[i].st = RuleAlone(i).st
       /\ IF ApplicableRules = {}
          THEN /\ Len(res.log) = Len(call.rules)
               /\ res.st = "JsonError" /\ res.err = "UnsupportedType"
          ELSE LET first == CHOOSE i \in ApplicableRules : \A j \in ApplicableRules : i <= j
               IN /\ Len(res.log) = first
                  /\ Same(res, WrapError(RuleAlone(first)))
                  /\ res.err = RuleAlone(first).err

\* a TheClass instance with the built-in chain: the rules before encode_dataclass signal
\* not-applicable, encode_dataclass gives the outcome and the rules after it are not invoked
C19_Witness ==
    /\ Done("encode") /\ call.rules = EncodingJsonEncoders
    /\ call.value = ObjV(TheClass, <<StrV("bla"), IntV(123)>>) /\ call.typ = TheClass
    /\ res.st = "ok"
    /\ Len(res.log) > 1 /\ Len(res.log) < Len(call.rules)
    /\ res.log[Len(res.log)].rule = "encode_dataclass"
    /\ \A i \in 1..(Len(res.log) - 1) : res.log[i].st = "Unsupported"

\* C20: when a rule of the chain recognises the type and rejects the value by raising, the
\* engine call fails at once and no later rule of the chain is invoked for that type and
\* value, even if a later rule would have accepted it.
C20_NoFallback ==
    (pc = "done" /\ call.op \in {"encode", "decode"})
    => \A i \in 1..Len(call.rules) :
          (/\ RuleAlone(i).st \notin {"ok", "Unsupported"}
           /\ \A j \in 1..(i - 1) : RuleAlone(j).st = "Unsupported")
          => /\ res.st = "JsonError"
             /\ Len(res.log) = i
             /\ \A j \in (i + 1)..Len(call.rules) :
                   <<call.rules[j], DispatchedTyp>> \notin {<<res.log[k].rule, res.log[k].typ>> : k \in 1..Len(res.log)}

\* the int 3 decoded against int with the custom rule first: the custom rule wants a str and
\* raises, and the built-in rule after it, which accepts 3, is not invoked
C20_Witness ==
    /\ Done("decode") /\ call.typ = IntT /\ call.value = IntV(3)
    /\ call.rules = <<"decode_int_custom">> \o EncodingJsonDecoders
    /\ \E j \in 2..Len(call.rules) : RuleAlone(j).st = "ok"
    /\ res.st = "JsonError" /\ Len(res.log) = 1

\* the rule invocations of a log, at every depth
RECURSIVE Invocations(_)
Invocations(log) ==
    UNION {{[rule |-> log[i].rule, typ |-> log[i].typ, rules |-> log[i].rules, case |-> log[i].case]}
           \cup Invocations(log[i].sub) : i \in 1..Len(log)}

\* the depth of the nested engine calls of a log
RECURSIVE Depth(_)
Depth(log) ==
    IF log = <<>> THEN 0
    ELSE 1 + (LET depths == {Depth(log[i].sub) : i \in 1..Len(log)}
              IN CHOOSE d \in depths : \A e \in depths : e <= d)

\* C21: in every nested engine call made during one top-level encode or decode, at any
\* depth and through any built-in rule, the rule chain and the case-conversion function
\* are those of the top-level call.
C21_ConfigurationThreaded ==
    (pc = "done" /\ call.op \in {"encode", "decode"})
    => \A e \in Invocations(res.log) : e.rules = call.rules /\ e.case = call.case

\* a record holding a list of int, encoded with snake case and the custom rule first: the
\* custom rule is invoked for the int in the list, three engine calls deep
C21_Witness ==
    /\ Done("encode") /\ call.case = "snakecase"
    /\ call.rules = <<"encode_int_custom">> \o EncodingJsonEncoders
    /\ call.value = ObjV(OneField(ListOf(IntT)), <<ListV(<<IntV(3)>>)>>)
    /\ res.st = "ok" /\ Depth(res.log) = 3
    /\ \E e \in Invocations(res.log) :
          e.rule = "encode_int_custom" /\ e.typ = IntT /\ e.rules = call.rules /\ e.case = "snakecase"

\* the alternatives of the union of the call that decode the value alone
DecodingAlternatives == {i \in 1..Len(call.typ.a) : AlternativeAlone(i).st = "ok"}

Concrete(typ) ==
    \/ typ \in {IntT, FloatT, StrT, BoolT, NoneType, DecimalT, char, DateT, DatetimeT, TimeT,
                UuidT, list, dict, tuple, set}
    \/ typ.k \in {"List", "Dict", "Tuple", "Set", "dataclass", "enum"}

\* a call of the built-in chain of its direction
WithBuiltinChain ==
    \/ call.op = "encode" /\ call.rules = EncodingJsonEncoders
    \/ call.op = "decode" /\ call.rules = EncodingJsonDecoders

\* C23 as stated: for every concrete non-union type descriptor, the bare containers
\* included, exactly one rule of the built-in decode chain and exactly one rule of the
\* built-in encode chain does not signal not-applicable, whatever the value.
C23_ExactlyOneRule ==
    (pc = "done" /\ WithBuiltinChain /\ Concrete(DispatchedTyp))
    => Cardinality(ApplicableRules) = 1

\* C23 amended: exactly one rule of the built-in encode chain, and exactly one rule of the
\* built-in decode chain except for the bare list, dict, tuple and set, for which no rule
\* of the decode chain is applicable; whatever the value.
C23_OneRuleButBareDecode ==
    (pc = "done" /\ WithBuiltinChain /\ Concrete(DispatchedTyp))
    => IF call.op = "decode" /\ DispatchedTyp \in {list, dict, tuple, set}
       THEN ApplicableRules = {} /\ res.st = "JsonError" /\ res.err = "UnsupportedType"
       ELSE Cardinality(ApplicableRules) = 1

\* the int 3 decoded against date: decode_date alone is applicable, and it rejects the value
C23_Witness ==
    /\ Done("decode") /\ WithBuiltinChain
    /\ call.typ = DateT /\ call.value = IntV(3)
    /\ Cardinality(ApplicableRules) = 1
    /\ \A i \in ApplicableRules : call.rules[i] = "decode_date"
    /\ res.st = "JsonError" /\ res.err = "TypeMismatch"

\* an interchange value: null, a boolean, a number, a string, a list of interchange
\* values, or a mapping from string keys to interchange values
RECURSIVE IsInterchange(_)
IsInterchange(value) ==
    \/ type(value) \in {NoneType, BoolT, IntT, FloatT, StrT, char}
    \/ type(value) = list /\ \A i \in 1..Len(data(value)) : IsInterchange(data(value)[i])
    \/ /\ type(value) = dict
       /\ \A i \in 1..Len(data(value)) :
             type(data(value)[i][1]) \in {StrT, char} /\ IsInterchange(data(value)[i][2])

\* C24: every successful encode with the built-in chain returns an interchange value, at
\* every nesting level: never a tuple, a set, a temporal object or a mapping with keys
\* that are not strings.
C24_EncodeGivesInterchange ==
    (Done("encode") /\ call.rules = EncodingJsonEncoders /\ res.st = "ok")
    => IsInterchange(res.v)

AgainstRuntimeType ==
    decode(type(call.value), call.value, call.case, call.rules, call.setorder)

\* C26: untyped decode covers scalars only.  decode(Any, j) gives the outcome of
\* decode(runtime type of j, j); with the built-in chain it returns j unchanged when j is
\* null, a boolean, an integer, a string or a decimal number, and fails with 'Unsupported
\* type' when j is an array or an object.
C26_UntypedDecode ==
    (Done("decode") /\ call.typ = AnyT)
    => /\ Same(res, AgainstRuntimeType) /\ res.err = AgainstRuntimeType.err
       /\ call.rules = EncodingJsonDecoders
          => /\ type(call.value) \in {NoneType, BoolT, IntT, StrT, DecimalT}
                => res.st = "ok" /\ res.v = call.value
             /\ type(call.value) \in {list, dict}
                => res.st = "JsonError" /\ res.err = "UnsupportedType"

\* the array [3] decoded against Any with the built-in chain: 'Unsupported type', as no
\* rule takes the bare list
C26_Witness ==
    /\ Done("decode") /\ call.typ = AnyT /\ call.rules = EncodingJsonDecoders
    /\ call.value = ListV(<<IntV(3)>>)
    /\ res.st = "JsonError" /\ res.err = "UnsupportedType"
    /\ \E e \in Invocations(res.log) : e.rule = "decode_any" /\ e.typ = list

====
